---- MODULE Spec2Model ----
(***************************************************************************)
(* A model of the tile world of THEGAME: biome weights, terrain            *)
(* generation, world building, the viewport builder, the player's          *)
(* footprints and the movement handler of the game loop.                   *)
(*                                                                         *)
(* The module holds several specifications over one set of variables; each *)
(* one drives a part of the program and leaves the other variables idle:   *)
(*   SpecFoot     Player.leave_footprint / get_footprints                  *)
(*   SpecWeights  _biome_weights_for_height                                *)
(*   SpecMapgen   generate_map                                             *)
(*   SpecView     the movement handler of main.py and World.build_viewport *)
(*   SpecBuild    build_world                                              *)
(* World dimensions are scaled down; `dims` holds the dimensions a         *)
(* specification runs with and never changes during a behaviour.           *)
(***************************************************************************)
EXTENDS Integers, Sequences, FiniteSets, TLC

VARIABLES
    dims,            \* [cols, rows, map_width, map_height]: engine/constants.py, scaled
    screens,         \* World.screens: (sx, sy) -> WorldScreen
    spawn_screen,    \* World.spawn_screen
    spawn_position,  \* World.spawn_position
    player,          \* Player.screen_x, screen_y, x, y
    footprints,      \* Player._footprints: (sx, sy) -> list of (x, y)
    current_battle,  \* main.py current_battle: NoBattle or [enemy_screen, enemy_index, previous_state]
    inventory_open,  \* main.py inventory_open
    moves,           \* number of key events handled so far (bounds the run)
    view,            \* the ViewportData of the last build_viewport call, or NoView
    visits,          \* history: the leave_footprint calls made, oldest first
    limit,           \* the `limit` argument the footprint calls are made with
    gen,             \* the generate_map call in progress
    wcall,           \* the last _biome_weights_for_height call and its result
    pc,              \* build_world: the step it has reached, or "idle"
    build,           \* build_world: its locals for the screen being built
    catalog,         \* data/tiles.py _BIOME_CACHE and the last get_biome_definition call
    hero,            \* Player.hp, Player.talents, who strikes first, and the battles' outcomes so far
    canvas,          \* the draw calls of the last draw_map call, in order
    time_elapsed,    \* World.time_elapsed
    species,         \* data/enemies.py ENEMIES and the last _enemy_id_for_biome call
    search,          \* a find_random_walkable call: its arguments, draws and result
    fight,           \* a Battle object and the two sides' fields its methods change
    inv              \* an Inventory object

vars == <<dims, screens, spawn_screen, spawn_position, player, footprints,
          current_battle, inventory_open, moves, view, visits, limit, gen, wcall, pc, build, catalog, hero, canvas, time_elapsed, species, search, fight, inv>>

worldVars == <<screens, spawn_screen, spawn_position>>

-----------------------------------------------------------------------------
(* Helpers *)

Range(s) == {s[i] : i \in 1..Len(s)}

Min(a, b) == IF a < b THEN a ELSE b

Max(a, b) == IF a > b THEN a ELSE b

\* Python's None where an int is expected (an optional int argument).
None == -1

\* Python list.remove(x): drops the first occurrence of x.
RECURSIVE ListRemove(_, _)
ListRemove(s, x) ==
    IF s = <<>> THEN <<>>
    ELSE IF Head(s) = x THEN Tail(s)
    ELSE <<Head(s)>> \o ListRemove(Tail(s), x)

Abs(x) == IF x < 0 THEN -x ELSE x

\* The operators below bind their operands with a quantifier over a singleton
\* set, so that an operand is evaluated once however often it is used.
RECURSIVE GCD(_, _)
GCD(a, b) == IF b = 0 THEN a ELSE CHOOSE g \in {GCD(b, r) : r \in {a % b}} : TRUE

(* Exact rationals <<numerator, denominator>>, denominator > 0, in lowest   *)
(* terms; they stand for the program's floats.                              *)
Rat(n, d) ==
    CHOOSE r \in {<<((IF y < 0 THEN -x ELSE x)) \div g, Abs(y) \div g>> :
                     <<x, y, g>> \in {<<n, d, GCD(Abs(n), Abs(d))>>}} : TRUE

RInt(n) == <<n, 1>>

RAdd(p, q) ==
    CHOOSE r \in {Rat(a[1] * (b[2] \div g) + b[1] * (a[2] \div g), (a[2] \div g) * b[2]) :
                     <<a, b, g>> \in {<<p, q, GCD(p[2], q[2])>>}} : TRUE

RNeg(p) == CHOOSE r \in {<<-a[1], a[2]>> : a \in {p}} : TRUE

RSub(p, q) == RAdd(p, RNeg(q))

RMul(p, q) ==
    CHOOSE r \in {Rat((a[1] \div GCD(Abs(a[1]), b[2])) * (b[1] \div GCD(Abs(b[1]), a[2])),
                       (a[2] \div GCD(Abs(b[1]), a[2])) * (b[2] \div GCD(Abs(a[1]), b[2]))) :
                     a \in {p}, b \in {q}} : TRUE

\* p / q for q # 0
RDiv(p, q) == CHOOSE r \in {RMul(p, Rat(b[2], b[1])) : b \in {q}} : TRUE

RLess(p, q) == RSub(p, q)[1] < 0

RLeq(p, q) == RSub(p, q)[1] <= 0

RMax(p, q) == CHOOSE r \in {IF RLess(a, b) THEN b ELSE a : a \in {p}, b \in {q}} : TRUE

RMin(p, q) == CHOOSE r \in {IF RLess(b, a) THEN b ELSE a : a \in {p}, b \in {q}} : TRUE

-----------------------------------------------------------------------------
(* Bounds of the model *)

\* SpecFoot: tiles visited are (0,0) .. (MaxFootTiles-1, 0)
MaxFootTiles == 3
\* SpecFoot: the cap L ranges over 0..MaxCap
MaxCap == 2
\* SpecFoot: number of leave_footprint calls in a run
MaxVisits == 4
\* SpecWeights: normalized row positions are i / YRes, i in 0..YRes
YRes == 12
\* SpecWeights: BIOME_TRANSITION_SCREENS ranges over 0..MaxSpan
MaxSpan == 3
\* SpecWeights: WORLD_ROWS ranges over 1..MaxWeightRows
MaxWeightRows == 3
\* SpecMapgen: grids are W x H with W, H in MinGenSize..MaxGenSize
MaxGenSize == 4
\* SpecView, SpecGame: WORLD_COLUMNS x WORLD_ROWS screens of MAP_WIDTH x MAP_HEIGHT tiles
ViewCols == 2
ViewRows == 2
ViewMapW == 4
ViewMapH == 3
\* SpecView, SpecGame: viewport windows are w x h, w in 1..MaxWinW, h in 1..MaxWinH
MaxWinW == 5
MaxWinH == 4
\* SpecView, SpecGame: the enemy and character layouts 0..MaxLayout of the sample world
MaxLayout == 1
\* SpecGame: number of key events in a run
MaxMoves == 5
\* SpecBuild: the world grid and the screen size of the build_world run
BuildCols == 1
BuildRows == 3
BuildMapW == 4
BuildMapH == 3

-----------------------------------------------------------------------------
(* Idle values of the variables a specification does not drive *)

NoBattle == [active |-> FALSE, exited |-> FALSE]
NoView == [built |-> FALSE]
NoGen == [pc |-> "idle"]
NoCall == [called |-> FALSE]
NoBuild == [coords |-> <<0, 0>>]
NoDims == [cols |-> 0, rows |-> 0, map_width |-> 0, map_height |-> 0]
NoPlayer == [screen_x |-> 0, screen_y |-> 0, x |-> 0, y |-> 0]
NoCatalog == [builds |-> 0]
NoHero == [hp |-> 0, talents |-> 0]
NoCanvas == [drawn |-> FALSE]
NoSpecies == [called |-> FALSE]
NoSearch == [pc |-> "idle"]
NoFight == [made |-> FALSE]
NoInv == [made |-> FALSE]

-----------------------------------------------------------------------------
(* engine/player.py: footprints *)

\* A mutant of LeaveFootprintList: a revisited tile is appended again without
\* removing its earlier entry.
LeaveFootprintListNoRemove(fp, position, lim) ==
    LET appended == Append(fp, position)
    IN  IF lim # None /\ Len(appended) > lim
        THEN SubSeq(appended, Len(appended) - lim + 1, Len(appended))
        ELSE appended

\* Player.leave_footprint on the list of one screen.
LeaveFootprintList(fp, position, lim) ==
    LET removed == IF position \in Range(fp) THEN ListRemove(fp, position) ELSE fp
        appended == Append(removed, position)
    IN  IF lim # None /\ Len(appended) > lim
        THEN SubSeq(appended, Len(appended) - lim + 1, Len(appended))
        ELSE appended

\* Player.leave_footprint: setdefault on the screen's list, then the update.
LeaveFootprint(fps, screen_coords, position, lim) ==
    (screen_coords :> LeaveFootprintList(IF screen_coords \in DOMAIN fps
                                         THEN fps[screen_coords] ELSE <<>>,
                                         position, lim)) @@ fps

\* Player.get_footprints: a copy of the screen's list, empty for a screen
\* that is no key of the dict.
GetFootprints(fps, screen_coords) ==
    IF screen_coords \in DOMAIN fps THEN fps[screen_coords] ELSE <<>>

\* A mutant of StoreAfterGetFootprints: the lookup is a setdefault.
StoreAfterGetFootprintsSetdefault(fps, screen_coords) ==
    IF screen_coords \in DOMAIN fps THEN fps ELSE (screen_coords :> <<>>) @@ fps

\* Player.get_footprints: the dict after the call. dict.get inserts nothing.
StoreAfterGetFootprints(fps, screen_coords) == fps

FootScreens == {<<0, 0>>, <<1, 0>>}
FootTiles == {<<i, 0>> : i \in 0..(MaxFootTiles - 1)}

InitFoot ==
    /\ dims = NoDims
    /\ screens = <<>>
    /\ spawn_screen = <<0, 0>>
    /\ spawn_position = <<0, 0>>
    /\ player = NoPlayer
    /\ footprints = <<>>
    /\ current_battle = NoBattle
    /\ inventory_open = FALSE
    /\ moves = 0
    /\ view = NoView
    /\ visits = <<>>
    /\ limit \in 0..MaxCap
    /\ gen = NoGen
    /\ wcall = NoCall
    /\ pc = "idle"
    /\ build = NoBuild
    /\ catalog = NoCatalog
    /\ hero = NoHero
    /\ canvas = NoCanvas
    /\ time_elapsed = 0
    /\ species = NoSpecies
    /\ search = NoSearch
    /\ fight = NoFight
    /\ inv = NoInv

\* One call player.leave_footprint(screen_coords, position, limit).
CallLeaveFootprint(screen_coords, position) ==
    /\ Len(visits) < MaxVisits
    /\ footprints' = LeaveFootprint(footprints, screen_coords, position, limit)
    /\ visits' = Append(visits, <<screen_coords, position>>)
    /\ UNCHANGED <<dims, worldVars, player, current_battle, inventory_open, moves, view,
                   limit, gen, wcall, pc, build, catalog, hero, canvas, time_elapsed, species, search, fight, inv>>

NextFoot == \E s \in FootScreens, p \in FootTiles : CallLeaveFootprint(s, p)

SpecFoot == InitFoot /\ [][NextFoot]_vars

\* The tiles of history h visited on screen s, oldest first.
RECURSIVE VisitsOf(_, _)
VisitsOf(h, s) ==
    IF h = <<>> THEN <<>>
    ELSE IF Head(h)[1] = s THEN <<Head(h)[2]>> \o VisitsOf(Tail(h), s)
    ELSE VisitsOf(Tail(h), s)

\* The distinct tiles of h in the order of their last visit.
RECURSIVE ByLastVisit(_)
ByLastVisit(h) ==
    IF h = <<>> THEN <<>>
    ELSE IF Head(h) \in Range(Tail(h)) THEN ByLastVisit(Tail(h))
    ELSE <<Head(h)>> \o ByLastVisit(Tail(h))

LastN(s, n) == SubSeq(s, Max(1, Len(s) - n + 1), Len(s))

NoDuplicates(s) == \A i, j \in 1..Len(s) : i # j => s[i] # s[j]

\* C8: footprint recency. After any sequence of leave_footprint calls with cap
\* L, the list of every screen has no duplicate, at most L entries, and is the
\* L most recently visited distinct tiles of that screen, least recent first;
\* a call for one screen therefore leaves the lists of the others as they were.
C8_FootprintRecency ==
    \A s \in FootScreens :
        /\ NoDuplicates(GetFootprints(footprints, s))
        /\ Len(GetFootprints(footprints, s)) <= limit
        /\ GetFootprints(footprints, s) = LastN(ByLastVisit(VisitsOf(visits, s)), limit)

\* Visits A, B, A, C on one screen with cap 2 end as [A, C], the other screen empty.
C8_Witness ==
    /\ limit = 2
    /\ VisitsOf(visits, <<0, 0>>) = << <<0, 0>>, <<1, 0>>, <<0, 0>>, <<2, 0>> >>
    /\ GetFootprints(footprints, <<0, 0>>) = << <<0, 0>>, <<2, 0>> >>
    /\ GetFootprints(footprints, <<1, 0>>) = <<>>

-----------------------------------------------------------------------------
(* engine/constants.py, as scaled by `dims` *)

MAP_WIDTH == dims.map_width
MAP_HEIGHT == dims.map_height
WORLD_COLUMNS == dims.cols
WORLD_ROWS == dims.rows

-----------------------------------------------------------------------------
(* engine/world.py: biome weights *)

BIOMES == {"winter", "summer", "drought"}

\* A mutant of Smoothstep: t is not clamped to [0, 1].
SmoothstepUnclamped(edge0, edge1, value) ==
    IF edge0 = edge1
    THEN (IF RLeq(edge1, value) THEN RInt(1) ELSE RInt(0))
    ELSE LET t == RDiv(RSub(value, edge0), RSub(edge1, edge0))
         IN  RMul(RMul(t, t), RSub(RInt(3), RMul(RInt(2), t)))

\* _smoothstep
Smoothstep(edge0, edge1, value) ==
    IF edge0 = edge1
    THEN (IF RLeq(edge1, value) THEN RInt(1) ELSE RInt(0))
    ELSE LET t == RMax(RInt(0), RMin(RInt(1),
                       RDiv(RSub(value, edge0), RSub(edge1, edge0))))
         IN  RMul(RMul(t, t), RSub(RInt(3), RMul(RInt(2), t)))

\* _normalized_height
NormalizedHeight(tile_y, total_tiles) ==
    IF total_tiles <= 1 THEN RInt(0) ELSE Rat(tile_y, total_tiles - 1)

\* A mutant of NormalizedWeights: the normalizing total leaves out the summer
\* weight.
NormalizedWeightsTotalWithoutSummer(winter_weight, summer_weight, drought_weight) ==
    CHOOSE weights \in
        {IF RLeq(total, RInt(0))
         THEN [b \in {"summer"} |-> RInt(1)]
         ELSE [b \in BIOMES |->
                  CASE b = "winter" -> RDiv(ww, total)
                    [] b = "summer" -> RDiv(sw, total)
                    [] b = "drought" -> RDiv(dw, total)] :
         <<ww, sw, dw, total>> \in
            {<<winter_weight, summer_weight, drought_weight,
               RAdd(winter_weight, drought_weight)>>}} : TRUE

\* _biome_weights_for_height lines 208-216: the total and the normalized dict.
NormalizedWeights(winter_weight, summer_weight, drought_weight) ==
    CHOOSE weights \in
        {IF RLeq(total, RInt(0))
         THEN [b \in {"summer"} |-> RInt(1)]
         ELSE [b \in BIOMES |->
                  CASE b = "winter" -> RDiv(ww, total)
                    [] b = "summer" -> RDiv(sw, total)
                    [] b = "drought" -> RDiv(dw, total)] :
         <<ww, sw, dw, total>> \in
            {<<winter_weight, summer_weight, drought_weight,
               RAdd(RAdd(winter_weight, summer_weight), drought_weight)>>}} : TRUE

\* _biome_weights_for_height lines 204-206: the three raw weights.
RawWeights(winter_falloff, drought_rise) ==
    CHOOSE raw \in
        {<<ww, RMax(RInt(0), RSub(RSub(RInt(1), ww), dw)), dw>> :
         <<ww, dw>> \in {<<RMax(RInt(0), RSub(RInt(1), winter_falloff)),
                           RMax(RInt(0), drought_rise)>>}} : TRUE

\* _biome_weights_for_height, with BIOME_TRANSITION_SCREENS as the argument span.
BiomeWeights(normalized_y, span) ==
    LET winter_limit == Rat(1, 3)
        summer_limit == Rat(2, 3)
        transition_span == Max(1, span)
        half_band == RDiv(Rat(transition_span, WORLD_ROWS), RInt(2))
        winter_falloff == Smoothstep(RSub(winter_limit, half_band),
                                     RAdd(winter_limit, half_band), normalized_y)
        drought_rise == Smoothstep(RSub(summer_limit, half_band),
                                   RAdd(summer_limit, half_band), normalized_y)
    IN  CHOOSE weights \in
            {NormalizedWeights(raw[1], raw[2], raw[3]) :
             raw \in {RawWeights(winter_falloff, drought_rise)}} : TRUE

InitWeights ==
    /\ dims \in {[cols |-> 1, rows |-> r, map_width |-> 1, map_height |-> 1] :
                    r \in 1..MaxWeightRows}
    /\ screens = <<>>
    /\ spawn_screen = <<0, 0>>
    /\ spawn_position = <<0, 0>>
    /\ player = NoPlayer
    /\ footprints = <<>>
    /\ current_battle = NoBattle
    /\ inventory_open = FALSE
    /\ moves = 0
    /\ view = NoView
    /\ visits = <<>>
    /\ limit = None
    /\ gen = NoGen
    /\ wcall = NoCall
    /\ pc = "idle"
    /\ build = NoBuild
    /\ catalog = NoCatalog
    /\ hero = NoHero
    /\ canvas = NoCanvas
    /\ time_elapsed = 0
    /\ species = NoSpecies
    /\ search = NoSearch
    /\ fight = NoFight
    /\ inv = NoInv

\* One call _biome_weights_for_height(i / YRes) with transition width span.
CallBiomeWeights(i, span) ==
    /\ wcall' = [called |-> TRUE, y |-> Rat(i, YRes), span |-> span,
                  out |-> BiomeWeights(Rat(i, YRes), span)]
    /\ UNCHANGED <<dims, worldVars, player, footprints, current_battle, inventory_open,
                   moves, view, visits, limit, gen, pc, build, catalog, hero, canvas, time_elapsed, species, search, fight, inv>>

NextWeights == \E i \in 0..YRes, span \in 0..MaxSpan : CallBiomeWeights(i, span)

SpecWeights == InitWeights /\ [][NextWeights]_vars

RECURSIVE RSum(_, _)
RSum(f, keys) ==
    IF keys = {} THEN RInt(0)
    ELSE LET k == CHOOSE k \in keys : TRUE
         IN  RAdd(f[k], RSum(f, keys \ {k}))

\* C7: for every row position y in [0,1] and every transition width, every
\* weight returned by _biome_weights_for_height is >= 0 and the weights sum
\* to 1, the single-biome fallback included.
C7_WeightsNormalized ==
    wcall.called =>
        /\ \A b \in DOMAIN wcall.out : RLeq(RInt(0), wcall.out[b])
        /\ RSum(wcall.out, DOMAIN wcall.out) = RInt(1)

\* A call inside a transition band: two biomes share the row, neither at 0 or 1.
C7_Witness ==
    /\ wcall.called
    /\ DOMAIN wcall.out = BIOMES
    /\ RLess(RInt(0), wcall.out["winter"])
    /\ RLess(RInt(0), wcall.out["summer"])
    /\ RLess(wcall.out["winter"], RInt(1))

-----------------------------------------------------------------------------
(* data/tiles.py: the biome catalog, and engine/mapgen.py: generate_map *)

\* ScatterRule
ScatterRule(tile, count_range, avoid_border) ==
    [tile |-> tile, count_range |-> count_range, avoid_border |-> avoid_border]

\* COMMON_TILES
COMMON_TILES == {"player", "enemy", "warlock"}

(* BIOME_CONFIGS as _build_biome turns them into BiomeDefinitions. The tile *)
(* names, forest tile sets, scatter tiles and avoid_border flags are those  *)
(* of the catalog; forest counts (3..6), radii (2..5) and scatter counts    *)
(* (6..28) are scaled down to the small grids of the model. "custom" is not *)
(* in the catalog: it is a BiomeDefinition a caller of generate_map may     *)
(* pass, whose scatter rule places a forest tile without avoiding the       *)
(* border and whose second rule names a tile missing from the palette.      *)
BiomeDefinition(name) ==
    CASE name = "summer" ->
           [name |-> "summer",
            tiles |-> {"summer_ground", "summer_tree", "summer_boulder"} \cup COMMON_TILES,
            ground_tile |-> "summer_ground",
            forest_tiles |-> <<"summer_tree">>,
            forest_count |-> <<0, 1>>,
            forest_radius |-> <<1, 2>>,
            forest_density |-> Rat(7, 10),
            scatter_rules |-> <<ScatterRule("summer_boulder", <<0, 1>>, TRUE)>>]
      [] name = "winter" ->
           [name |-> "winter",
            tiles |-> {"winter_ground", "winter_tree", "winter_snowdrift", "footprint"}
                        \cup COMMON_TILES,
            ground_tile |-> "winter_ground",
            forest_tiles |-> <<"winter_tree">>,
            forest_count |-> <<0, 1>>,
            forest_radius |-> <<1, 2>>,
            forest_density |-> Rat(7, 10),
            scatter_rules |-> <<ScatterRule("winter_snowdrift", <<1, 2>>, FALSE)>>]
      [] name = "drought" ->
           [name |-> "drought",
            tiles |-> {"drought_ground", "drought_cactus", "drought_dead_tree"}
                        \cup COMMON_TILES,
            ground_tile |-> "drought_ground",
            forest_tiles |-> <<"drought_cactus", "drought_dead_tree">>,
            forest_count |-> <<0, 1>>,
            forest_radius |-> <<1, 2>>,
            forest_density |-> Rat(6, 10),
            scatter_rules |-> <<ScatterRule("drought_cactus", <<0, 1>>, TRUE),
                                ScatterRule("drought_dead_tree", <<0, 1>>, TRUE)>>]
      [] name = "custom" ->
           [name |-> "custom",
            tiles |-> {"custom_ground", "custom_tree"} \cup COMMON_TILES,
            ground_tile |-> "custom_ground",
            forest_tiles |-> <<"custom_tree">>,
            forest_count |-> <<0, 1>>,
            forest_radius |-> <<1, 2>>,
            forest_density |-> Rat(7, 10),
            scatter_rules |-> <<ScatterRule("custom_tree", <<1, 1>>, FALSE),
                                ScatterRule("custom_missing", <<0, 1>>, TRUE)>>]

\* tile["walkable"] of the catalog's tiles
TileWalkable(tile) ==
    tile \in {"summer_ground", "winter_ground", "winter_snowdrift", "drought_ground",
              "custom_ground", "footprint", "player"}

CatalogBiomes == {"summer", "winter", "drought"}
GenBiomes == CatalogBiomes \cup {"custom"}
MinGenSize == 3

\* generate_map line 38: the cell lies on the outer border.
OnBorder(x, y, width, height) ==
    x \in {0, width - 1} \/ y \in {0, height - 1}

\* A mutant of ForestCells: the border test of line 38 is missing.
ForestCellsNoBorderTest(width, height, fx, fy, radius) ==
    {c \in (Max(0, fx - radius)..(Min(width, fx + radius + 1) - 1))
            \X (Max(0, fy - radius)..(Min(height, fy + radius + 1) - 1)) :
        (c[1] - fx) * (c[1] - fx) + (c[2] - fy) * (c[2] - fy) < radius * radius}

\* generate_map lines 36-41: the cells (x, y) of one cluster that reach the
\* density draw: inside the clipped square, off the border, dist < radius.
ForestCells(width, height, fx, fy, radius) ==
    {c \in (Max(0, fx - radius)..(Min(width, fx + radius + 1) - 1))
            \X (Max(0, fy - radius)..(Min(height, fy + radius + 1) - 1)) :
        /\ ~OnBorder(c[1], c[2], width, height)
        /\ (c[1] - fx) * (c[1] - fx) + (c[2] - fy) * (c[2] - fy) < radius * radius}

\* The outcomes of `random.random() < density`.
DensityDraws(density) ==
    IF RLeq(density, RInt(0)) THEN {FALSE}
    ELSE IF RLeq(RInt(1), density) THEN {TRUE}
    ELSE {TRUE, FALSE}

\* What one cell of a cluster may become: "keep" when the density draw fails
\* or _pick_forest_tile returns None, else one of the forest tiles.
ForestOutcomes(biome) ==
    (IF FALSE \in DensityDraws(biome.forest_density) \/ biome.forest_tiles = <<>>
     THEN {"keep"} ELSE {})
    \cup (IF TRUE \in DensityDraws(biome.forest_density)
          THEN Range(biome.forest_tiles) ELSE {})

InitMapgen ==
    /\ dims = NoDims
    /\ screens = <<>>
    /\ spawn_screen = <<0, 0>>
    /\ spawn_position = <<0, 0>>
    /\ player = NoPlayer
    /\ footprints = <<>>
    /\ current_battle = NoBattle
    /\ inventory_open = FALSE
    /\ moves = 0
    /\ view = NoView
    /\ visits = <<>>
    /\ limit = None
    /\ gen = NoGen
    /\ wcall = NoCall
    /\ pc = "idle"
    /\ build = NoBuild
    /\ catalog = NoCatalog
    /\ hero = NoHero
    /\ canvas = NoCanvas
    /\ time_elapsed = 0
    /\ species = NoSpecies
    /\ search = NoSearch
    /\ fight = NoFight
    /\ inv = NoInv

genFrame == <<dims, worldVars, player, footprints, current_battle, inventory_open,
              moves, view, visits, limit, wcall, pc, build, catalog, hero, canvas, time_elapsed, species, search, fight, inv>>

\* After the forest loop or a finished rule: the next scatter rule, or return.
GenAfter(g) ==
    IF g.forests_left > 0 THEN [g EXCEPT !.pc = "forest"]
    ELSE IF g.rule < Len(BiomeDefinition(g.biome).scatter_rules)
    THEN [g EXCEPT !.pc = "rule"]
    ELSE [g EXCEPT !.pc = "done"]

\* generate_map lines 20-30: the ground grid and the number of forests.
GenStart(width, height, name) ==
    /\ gen.pc = "idle"
    /\ \E num_forests \in BiomeDefinition(name).forest_count[1]
                            ..BiomeDefinition(name).forest_count[2] :
          gen' = GenAfter([pc |-> "start", width |-> width, height |-> height,
                           biome |-> name,
                           map |-> [y \in 0..(height - 1) |->
                                      [x \in 0..(width - 1) |->
                                          BiomeDefinition(name).ground_tile]],
                           forests_left |-> num_forests, rule |-> 0, count_left |-> 0])
    /\ UNCHANGED genFrame

\* generate_map lines 31-44: one forest cluster.
GenForest ==
    /\ gen.pc = "forest"
    /\ LET biome == BiomeDefinition(gen.biome)
       IN  \E fx \in 1..(gen.width - 2), fy \in 1..(gen.height - 2),
              radius \in biome.forest_radius[1]..biome.forest_radius[2] :
             \E put \in [ForestCells(gen.width, gen.height, fx, fy, radius)
                            -> ForestOutcomes(biome)] :
                gen' = GenAfter([gen EXCEPT
                          !.forests_left = @ - 1,
                          !.map = [y \in 0..(gen.height - 1) |->
                                     [x \in 0..(gen.width - 1) |->
                                        IF <<x, y>> \in DOMAIN put /\ put[<<x, y>>] # "keep"
                                        THEN put[<<x, y>>] ELSE gen.map[y][x]]]])
    /\ UNCHANGED genFrame

\* generate_map lines 46-50: the next rule draws its count; a rule whose tile
\* is not in the palette is skipped.
GenScatterRule ==
    /\ gen.pc = "rule"
    /\ LET rule == BiomeDefinition(gen.biome).scatter_rules[gen.rule + 1]
       IN  \E count \in rule.count_range[1]..rule.count_range[2] :
             gen' = IF rule.tile \notin BiomeDefinition(gen.biome).tiles \/ count = 0
                    THEN GenAfter([gen EXCEPT !.rule = @ + 1, !.count_left = 0])
                    ELSE [gen EXCEPT !.pc = "place", !.count_left = count]
    /\ UNCHANGED genFrame

\* generate_map lines 51-56: one placement of the current rule.
GenScatterPlace ==
    /\ gen.pc = "place"
    /\ LET rule == BiomeDefinition(gen.biome).scatter_rules[gen.rule + 1]
       IN  \E x \in 0..(gen.width - 1), y \in 0..(gen.height - 1) :
             LET placed == IF rule.avoid_border /\ OnBorder(x, y, gen.width, gen.height)
                           THEN gen.map
                           ELSE [gen.map EXCEPT ![y][x] = rule.tile]
                 next == [gen EXCEPT !.map = placed, !.count_left = @ - 1]
             IN  gen' = IF next.count_left > 0 THEN next
                        ELSE GenAfter([next EXCEPT !.rule = @ + 1])
    /\ UNCHANGED genFrame

NextMapgen ==
    \/ \E w \in MinGenSize..MaxGenSize, h \in MinGenSize..MaxGenSize, b \in GenBiomes :
          GenStart(w, h, b)
    \/ GenForest
    \/ GenScatterRule
    \/ GenScatterPlace

SpecMapgen == InitMapgen /\ [][NextMapgen]_vars

IsForestTile(biome, tile) == tile \in Range(biome.forest_tiles)

BorderHasForest(g) ==
    \E x \in 0..(g.width - 1), y \in 0..(g.height - 1) :
        /\ OnBorder(x, y, g.width, g.height)
        /\ IsForestTile(BiomeDefinition(g.biome), g.map[y][x])

\* The biome's ground tile is no forest tile and every scatter rule that
\* places a forest tile avoids the border.
ScatterKeepsBorder(biome) ==
    /\ ~IsForestTile(biome, biome.ground_tile)
    /\ \A i \in 1..Len(biome.scatter_rules) :
          IsForestTile(biome, biome.scatter_rules[i].tile)
             => biome.scatter_rules[i].avoid_border

\* C6 as stated: for every biome definition the grid generate_map returns has
\* no forest tile on the border, also after the scatter rules have run.
C6_Original == gen.pc = "done" => ~BorderHasForest(gen)

\* C6 as amended: for every grid size, every outcome of the draws and every
\* biome definition whose ground tile is not a forest tile and whose scatter
\* rules placing a forest tile all avoid the border (every biome of the
\* catalog), no border cell holds a forest tile, during and after scatter.
C6_NoForestOnBorder ==
    (gen.pc # "idle" /\ ScatterKeepsBorder(BiomeDefinition(gen.biome)))
        => ~BorderHasForest(gen)

\* A finished winter grid with a tree inside and a scattered snowdrift on the border.
C6_Witness ==
    /\ gen.pc = "done"
    /\ gen.biome = "winter"
    /\ \E x \in 0..(gen.width - 1), y \in 0..(gen.height - 1) :
          gen.map[y][x] = "winter_tree"
    /\ \E x \in 0..(gen.width - 1), y \in 0..(gen.height - 1) :
          OnBorder(x, y, gen.width, gen.height) /\ gen.map[y][x] = "winter_snowdrift"

-----------------------------------------------------------------------------
(* engine/world.py: World, WorldScreen and the per-screen biome data *)

\* The width of the biome transitions in screens. engine/world.py imports it
\* from engine/constants.py, which does not define it; the smallest width
\* that max(1, .) allows is taken.
BIOME_TRANSITION_SCREENS == 1

\* World.total_width, World.total_height
TotalWidth == MAP_WIDTH * WORLD_COLUMNS
TotalHeight == MAP_HEIGHT * WORLD_ROWS

ScreenCoords == (0..(WORLD_COLUMNS - 1)) \X (0..(WORLD_ROWS - 1))

\* The key order of the dict _biome_weights_for_height returns.
BiomeOrder == <<"winter", "summer", "drought">>

WeightKeys(w) == SelectSeq(BiomeOrder, LAMBDA b : b \in DOMAIN w)

\* build_world lines 292-294: the weights at the screen's vertical centre.
ScreenBiomeWeights(sy) ==
    BiomeWeights(NormalizedHeight(sy * MAP_HEIGHT + MAP_HEIGHT \div 2,
                                  WORLD_ROWS * MAP_HEIGHT),
                 BIOME_TRANSITION_SCREENS)

\* build_world line 295: max(biome_weights, key=biome_weights.get), the first
\* key of largest weight.
DominantBiome(w) ==
    LET keys == WeightKeys(w)
        i == CHOOSE i \in 1..Len(keys) :
                /\ \A j \in 1..Len(keys) : RLeq(w[keys[j]], w[keys[i]])
                /\ \A j \in 1..(i - 1) : RLess(w[keys[j]], w[keys[i]])
    IN  keys[i]

\* build_world lines 297-299: the biomes of weight > 0.01, else the dominant one.
RelevantBiomes(w) ==
    LET above == SelectSeq(WeightKeys(w), LAMBDA b : RLess(Rat(1, 100), w[b]))
    IN  IF above = <<>> THEN <<DominantBiome(w)>> ELSE above

\* build_world lines 310-312: the palettes of the relevant biomes, merged.
CombinedTiles(w) ==
    UNION {BiomeDefinition(b).tiles : b \in Range(RelevantBiomes(w))}

\* build_world lines 319-326: the relevant biomes of positive weight at the
\* row, else the dominant biome.
PositiveChoices(w, tile_weights) ==
    LET positive == SelectSeq(RelevantBiomes(w),
                              LAMBDA b : b \in DOMAIN tile_weights
                                         /\ RLess(RInt(0), tile_weights[b]))
    IN  IF positive = <<>> THEN <<DominantBiome(w)>> ELSE positive

\* build_world lines 317-326: the biomes a row of the screen draws from.
RowChoices(sy, ty) ==
    CHOOSE choices \in
        {PositiveChoices(w, tile_weights) :
         <<w, tile_weights>> \in
            {<<ScreenBiomeWeights(sy),
               BiomeWeights(NormalizedHeight(sy * MAP_HEIGHT + ty, WORLD_ROWS * MAP_HEIGHT),
                            BIOME_TRANSITION_SCREENS)>>}} : TRUE

\* A mutant of Walkable: the tile's flag is not read.
WalkableAlways(terrain, x, y) == terrain[y][x] = terrain[y][x]

\* game_map[y][x]["walkable"]
Walkable(terrain, x, y) == TileWalkable(terrain[y][x])

\* The walkable tiles of a terrain in row-major order.
WalkableTiles(terrain) ==
    LET cell(i) == <<(i - 1) % MAP_WIDTH, (i - 1) \div MAP_WIDTH>>
        all == [i \in 1..(MAP_WIDTH * MAP_HEIGHT) |-> cell(i)]
    IN  SelectSeq(all, LAMBDA c : Walkable(terrain, c[1], c[2]))

\* find_spawn lines 226-230: the first walkable tile, in scan order, of the
\* clipped square of radius r around the centre.
SquareCells(r) ==
    LET cx == MAP_WIDTH \div 2
        cy == MAP_HEIGHT \div 2
    IN  (Max(0, cx - r)..(Min(MAP_WIDTH, cx + r + 1) - 1))
            \X (Max(0, cy - r)..(Min(MAP_HEIGHT, cy + r + 1) - 1))

\* A mutant of FindSpawn: the rings are not searched nearest first; the first
\* walkable tile of the whole map in scan order is returned.
FindSpawnFirstInScanOrder(terrain) ==
    LET cx == MAP_WIDTH \div 2
        cy == MAP_HEIGHT \div 2
        found == {c \in (0..(MAP_WIDTH - 1)) \X (0..(MAP_HEIGHT - 1)) :
                     Walkable(terrain, c[1], c[2])}
    IN  IF Walkable(terrain, cx, cy) THEN <<cx, cy>>
        ELSE IF found = {} THEN <<0, 0>>
        ELSE CHOOSE c \in found :
                \A d \in found : c[2] < d[2] \/ (c[2] = d[2] /\ c[1] <= d[1])

\* A mutant of FindSpawn: the walkable test of the centre is missing.
FindSpawnAlwaysCentre(terrain) == <<MAP_WIDTH \div 2, MAP_HEIGHT \div 2>>

\* find_spawn
FindSpawn(terrain) ==
    LET cx == MAP_WIDTH \div 2
        cy == MAP_HEIGHT \div 2
        found(r) == {c \in SquareCells(r) : Walkable(terrain, c[1], c[2])}
        radii == {r \in 1..(Max(MAP_WIDTH, MAP_HEIGHT) - 1) : found(r) # {}}
    IN  IF Walkable(terrain, cx, cy) THEN <<cx, cy>>
        ELSE IF radii = {} THEN <<0, 0>>
        ELSE LET r == CHOOSE r \in radii : \A q \in radii : r <= q
             IN  CHOOSE c \in found(r) :
                    \A d \in found(r) : c[2] < d[2] \/ (c[2] = d[2] /\ c[1] <= d[1])

\* enemy_data["hp"], scaled.
EnemyMaxHp == 2

\* Enemy (engine/battle.py) and Character (engine/characters.py): the fields
\* the world, the viewport and the movement handler read.
Enemy(x, y, sx, sy, defeated) ==
    [x |-> x, y |-> y, screen_x |-> sx, screen_y |-> sy, defeated |-> defeated,
     hp |-> EnemyMaxHp, max_hp |-> EnemyMaxHp]

Character(x, y, sx, sy) == [x |-> x, y |-> y, screen_x |-> sx, screen_y |-> sy]

(* A sample of the worlds build_world returns, for the specifications that  *)
(* start from a built world. Every cell is a tile of a biome its row draws  *)
(* from: that biome's ground tile, a forest tile (never on the border) or   *)
(* its first scatter tile (on the border only if the rule allows it); which *)
(* one is fixed by the cell's global coordinate, so neighbouring cells and  *)
(* screens differ. Every screen holds a live enemy on a walkable tile (not  *)
(* the spawn tile), every second screen a character on another walkable     *)
(* tile; `layout` moves them and, when odd, adds to every screen a second   *)
(* enemy whose defeated flag is set.                                        *)
SampleTile(biome, gx, gy, inside) ==
    IF inside /\ (gx + 2 * gy) % 3 = 0 THEN biome.forest_tiles[1]
    ELSE IF (gx + 3 * gy) % 5 = 2 /\ (inside \/ ~biome.scatter_rules[1].avoid_border)
    THEN biome.scatter_rules[1].tile
    ELSE biome.ground_tile

SampleCell(sx, sy, tx, ty) ==
    CHOOSE tile \in
        {SampleTile(BiomeDefinition(choices[((gx + gy) % Len(choices)) + 1]), gx, gy,
                    ~OnBorder(tx, ty, MAP_WIDTH, MAP_HEIGHT)) :
         <<choices, gx, gy>> \in
            {<<RowChoices(sy, ty), sx * MAP_WIDTH + tx, sy * MAP_HEIGHT + ty>>}} : TRUE

SampleTerrain(sx, sy) ==
    [ty \in 0..(MAP_HEIGHT - 1) |-> [tx \in 0..(MAP_WIDTH - 1) |-> SampleCell(sx, sy, tx, ty)]]

SamplePick(list, n) == list[(n % Len(list)) + 1]

SampleScreen(sx, sy, layout) ==
    CHOOSE screen \in
        {[tiles |-> CombinedTiles(w),
          terrain |-> terrain,
          biome |-> DominantBiome(w),
          biome_weights |-> w,
          enemies |->
              IF layout % 2 = 1
              THEN <<Enemy(e[1], e[2], sx, sy, FALSE), Enemy(d[1], d[2], sx, sy, TRUE)>>
              ELSE <<Enemy(e[1], e[2], sx, sy, FALSE)>>,
          characters |->
              IF (sx + sy + layout) % 2 = 0
              THEN <<Character(SamplePick(SelectSeq(free, LAMBDA t : t \notin {e, d}),
                                          5 * layout + 2 * sx + sy)[1],
                               SamplePick(SelectSeq(free, LAMBDA t : t \notin {e, d}),
                                          5 * layout + 2 * sx + sy)[2], sx, sy)>>
              ELSE <<>>] :
         <<w, terrain, free, e, d>> \in
            {<<v, t, f, SamplePick(f, 3 * layout + sx + 2 * sy),
               SamplePick(f, 3 * layout + sx + 2 * sy + 1 + layout)>> :
             <<v, t, f>> \in
                {<<ScreenBiomeWeights(sy), u,
                   SelectSeq(WalkableTiles(u),
                             LAMBDA c : ~(/\ sx = WORLD_COLUMNS \div 2
                                          /\ sy = WORLD_ROWS \div 2
                                          /\ c = FindSpawn(u)))>> :
                 u \in {SampleTerrain(sx, sy)}}}} : TRUE

SampleScreens(layout) == [s \in ScreenCoords |-> SampleScreen(s[1], s[2], layout)]

-----------------------------------------------------------------------------
(* engine/world.py: build_world, unfolded for the spawn screen. The other    *)
(* screens are built by the same loop body and never touch the spawn         *)
(* screen's terrain or lists; the one thing they decide for it is whether    *)
(* the shuffle leaves it among the screens that receive a character.         *)

BuildDims == [cols |-> BuildCols, rows |-> BuildRows,
              map_width |-> BuildMapW, map_height |-> BuildMapH]

Cells == (0..(MAP_WIDTH - 1)) \X (0..(MAP_HEIGHT - 1))

\* A mutant of FindRandomWalkable: the exclude set is not consulted.
FindRandomWalkableNoExclude(game_map, exclude) ==
    LET accepted == {c \in Cells : Walkable(game_map, c[1], c[2])}
    IN  accepted \cup (IF accepted # Cells THEN {<<0, 0>>} ELSE {})

\* find_random_walkable: the tiles it can return. A draw is accepted when the
\* tile is walkable and not excluded; the fallback (0, 0) needs 500 rejected
\* draws, which some sequence of draws gives whenever a tile can be rejected.
FindRandomWalkable(game_map, exclude) ==
    LET accepted == {c \in Cells : c \notin exclude /\ Walkable(game_map, c[1], c[2])}
    IN  accepted \cup (IF accepted # Cells THEN {<<0, 0>>} ELSE {})

\* build_world lines 286-299: the loop reaches the spawn screen.
InitBuild ==
    /\ dims = BuildDims
    /\ screens = <<>>
    /\ spawn_screen = <<0, 0>>
    /\ spawn_position = <<0, 0>>
    /\ player = NoPlayer
    /\ footprints = <<>>
    /\ current_battle = NoBattle
    /\ inventory_open = FALSE
    /\ moves = 0
    /\ view = NoView
    /\ visits = <<>>
    /\ limit = None
    /\ gen = NoGen
    /\ wcall = NoCall
    /\ pc = "maps"
    /\ build = [coords |-> <<WORLD_COLUMNS \div 2, WORLD_ROWS \div 2>>,
                biome_weights |-> ScreenBiomeWeights(WORLD_ROWS \div 2),
                relevant_biomes |-> RelevantBiomes(ScreenBiomeWeights(WORLD_ROWS \div 2)),
                terrain_options |-> <<>>,
                terrain |-> <<>>,
                enemies |-> <<>>,
                characters |-> <<>>,
                relocated |-> 0]
    /\ catalog = NoCatalog
    /\ hero = NoHero
    /\ canvas = NoCanvas
    /\ time_elapsed = 0
    /\ species = NoSpecies
    /\ search = NoSearch
    /\ fight = NoFight
    /\ inv = NoInv

buildFrame == <<dims, worldVars, player, footprints, current_battle, inventory_open,
                moves, view, visits, limit, wcall, catalog, hero, canvas, time_elapsed, species, search, fight, inv>>

\* The relevant biomes whose map is not generated yet.
Pending == SelectSeq(build.relevant_biomes, LAMBDA b : b \notin DOMAIN build.terrain_options)

\* build_world lines 306-308: generate_map(MAP_WIDTH, MAP_HEIGHT, definition)
\* is called for the next relevant biome.
BuildGenerate ==
    /\ pc = "maps"
    /\ Pending # <<>>
    /\ GenStart(MAP_WIDTH, MAP_HEIGHT, Head(Pending))

\* build_world line 308: the returned map is stored in terrain_options.
BuildStoreMap ==
    /\ pc = "maps"
    /\ gen.pc = "done"
    /\ build' = [build EXCEPT !.terrain_options = (gen.biome :> gen.map) @@ @]
    /\ gen' = NoGen
    /\ UNCHANGED <<buildFrame, pc>>

\* build_world lines 314-343: every cell takes the tile of one of its row's
\* weighted choices.
BuildTerrain ==
    /\ pc = "maps"
    /\ gen.pc = "idle"
    /\ Pending = <<>>
    /\ \E weighted_choices \in
            {[ty \in 0..(MAP_HEIGHT - 1) |-> Range(RowChoices(build.coords[2], ty))]} :
       \E chosen_biome \in [Cells -> Range(build.relevant_biomes)] :
          /\ \A c \in Cells : chosen_biome[c] \in weighted_choices[c[2]]
          /\ build' = [build EXCEPT !.terrain =
                          [ty \in 0..(MAP_HEIGHT - 1) |->
                              [tx \in 0..(MAP_WIDTH - 1) |->
                                  build.terrain_options[chosen_biome[<<tx, ty>>]][ty][tx]]]]
    /\ pc' = "enemy"
    /\ UNCHANGED <<buildFrame, gen>>

\* build_world lines 351-371: the screen's enemy.
BuildEnemy ==
    /\ pc = "enemy"
    /\ \E e \in FindRandomWalkable(build.terrain, {}) :
          build' = [build EXCEPT !.enemies =
                       IF Walkable(build.terrain, e[1], e[2])
                       THEN <<Enemy(e[1], e[2], build.coords[1], build.coords[2], FALSE)>>
                       ELSE <<>>]
    /\ pc' = "warlock"
    /\ UNCHANGED <<buildFrame, gen>>

\* build_world lines 382-407: the screen is, or is not, among the first
\* min(5, number of screens) of the shuffled screens; if it is, a character
\* is placed off the occupied tiles.
BuildWarlock ==
    /\ pc = "warlock"
    /\ \E drawn \in (IF WORLD_COLUMNS * WORLD_ROWS <= 5 THEN {TRUE} ELSE BOOLEAN) :
          IF drawn
          THEN LET occupied == {<<build.enemies[i].x, build.enemies[i].y>> :
                                  i \in 1..Len(build.enemies)}
               IN  \E w \in FindRandomWalkable(build.terrain, occupied) :
                      build' = [build EXCEPT !.characters =
                                   IF Walkable(build.terrain, w[1], w[2])
                                   THEN <<Character(w[1], w[2], build.coords[1], build.coords[2])>>
                                   ELSE <<>>]
          ELSE UNCHANGED build
    /\ pc' = "spawn"
    /\ UNCHANGED <<buildFrame, gen>>

\* build_world lines 409-429: the spawn tile; an enemy standing on it is moved
\* to the tile find_random_walkable returns, or flagged defeated when that
\* tile is not walkable.
BuildSpawn ==
    /\ pc = "spawn"
    /\ LET spawn == FindSpawn(build.terrain)
           n == Len(build.enemies)
           hit == {i \in 1..n : <<build.enemies[i].x, build.enemies[i].y>> = spawn}
       IN  \E new \in [1..n -> FindRandomWalkable(build.terrain, {spawn})] :
             LET enemies == [i \in 1..n |->
                    IF i \notin hit THEN build.enemies[i]
                    ELSE IF Walkable(build.terrain, new[i][1], new[i][2])
                    THEN [build.enemies[i] EXCEPT !.x = new[i][1], !.y = new[i][2]]
                    ELSE [build.enemies[i] EXCEPT !.defeated = TRUE]]
             IN  /\ \A i \in 1..n : i \notin hit => new[i] = <<0, 0>>
                 /\ build' = [build EXCEPT !.enemies = enemies,
                                           !.relocated = Cardinality(hit)]
                 /\ screens' = [s \in {build.coords} |->
                                  [tiles |-> CombinedTiles(build.biome_weights),
                                   terrain |-> build.terrain,
                                   biome |-> DominantBiome(build.biome_weights),
                                   biome_weights |-> build.biome_weights,
                                   enemies |-> enemies,
                                   characters |-> build.characters]]
                 /\ spawn_screen' = <<WORLD_COLUMNS \div 2, WORLD_ROWS \div 2>>
                 /\ spawn_position' = spawn
    /\ pc' = "built"
    /\ UNCHANGED <<dims, player, footprints, current_battle, inventory_open,
                   moves, view, visits, limit, wcall, gen, catalog, hero, canvas, time_elapsed, species, search, fight, inv>>

NextBuild ==
    \/ BuildGenerate
    \/ GenForest
    \/ GenScatterRule
    \/ GenScatterPlace
    \/ BuildStoreMap
    \/ BuildTerrain
    \/ BuildEnemy
    \/ BuildWarlock
    \/ BuildSpawn

SpecBuild == InitBuild /\ [][NextBuild]_vars

\* C5: after build_world, whatever the random draws, spawn_position is a
\* walkable tile of the spawn screen's terrain and no enemy of the spawn
\* screen's list stands on it.
C5_SpawnFree ==
    pc = "built" =>
        /\ Walkable(screens[spawn_screen].terrain, spawn_position[1], spawn_position[2])
        /\ \A i \in 1..Len(screens[spawn_screen].enemies) :
              <<screens[spawn_screen].enemies[i].x, screens[spawn_screen].enemies[i].y>>
                 # spawn_position

\* C5 happens: the centre tile is blocked, so the spawn tile is a neighbour
\* found by the ring search, and the enemy placed on it was moved away.
C5_Witness ==
    /\ pc = "built"
    /\ spawn_position # <<MAP_WIDTH \div 2, MAP_HEIGHT \div 2>>
    /\ build.relocated = 1
    /\ Len(screens[spawn_screen].enemies) = 1

-----------------------------------------------------------------------------
(* engine/world.py: World.build_viewport *)

\* A mutant of ClampCamera: the upper clamp min(x, max_x) is missing.
ClampCameraNoUpper(x, y, width, height) == <<Max(0, x), Max(0, y)>>

\* World._clamp_camera
ClampCamera(x, y, width, height) ==
    LET max_x == Max(0, TotalWidth - width)
        max_y == Max(0, TotalHeight - height)
    IN  <<Max(0, Min(x, max_x)), Max(0, Min(y, max_y))>>

\* build_viewport lines 105-106: the player's flattened world coordinate.
WorldXY(pl) == <<pl.screen_x * MAP_WIDTH + pl.x, pl.screen_y * MAP_HEIGHT + pl.y>>

\* A mutant of CentredCamera: the window size is not halved.
CentredCameraFullSize(pl, width, height) ==
    <<WorldXY(pl)[1] - width, WorldXY(pl)[2] - height>>

\* build_viewport lines 107-108: the camera origin centred on the player.
CentredCamera(pl, width, height) ==
    <<WorldXY(pl)[1] - (width \div 2), WorldXY(pl)[2] - (height \div 2)>>

\* build_viewport line 109
CameraOrigin(pl, width, height) ==
    ClampCamera(CentredCamera(pl, width, height)[1], CentredCamera(pl, width, height)[2],
                width, height)

\* A mutant of ScreensInRect: the row range stops before the bottom row.
ScreensInRectBottomExcluded(start_x, start_y, width, height) ==
    IF width <= 0 \/ height <= 0 THEN <<>>
    ELSE LET end_x == Min(TotalWidth, start_x + width)
             end_y == Min(TotalHeight, start_y + height)
             left == start_x \div MAP_WIDTH
             right == (end_x - 1) \div MAP_WIDTH
             top == start_y \div MAP_HEIGHT
             bottom == (end_y - 1) \div MAP_HEIGHT
             ncols == right - left + 1
             nrows == bottom - top
         IN  [i \in 1..(ncols * nrows) |->
                 <<left + ((i - 1) % ncols), top + ((i - 1) \div ncols)>>]

\* World._screens_in_rect, as the list the generator yields.
ScreensInRect(start_x, start_y, width, height) ==
    IF width <= 0 \/ height <= 0 THEN <<>>
    ELSE LET end_x == Min(TotalWidth, start_x + width)
             end_y == Min(TotalHeight, start_y + height)
             left == start_x \div MAP_WIDTH
             right == (end_x - 1) \div MAP_WIDTH
             top == start_y \div MAP_HEIGHT
             bottom == (end_y - 1) \div MAP_HEIGHT
             ncols == right - left + 1
             nrows == bottom - top + 1
         IN  [i \in 1..(ncols * nrows) |->
                 <<left + ((i - 1) % ncols), top + ((i - 1) \div ncols)>>]

\* build_viewport lines 114-121: the screen and the in-screen offset of the
\* window cell (local_x, local_y).
CellScreen(camera, local_x, local_y) ==
    <<(camera[1] + local_x) \div MAP_WIDTH, (camera[2] + local_y) \div MAP_HEIGHT>>

\* A mutant of CellOffset: the column offset is taken modulo MAP_HEIGHT.
CellOffsetHeightForWidth(camera, local_x, local_y) ==
    <<(camera[1] + local_x) % MAP_HEIGHT, (camera[2] + local_y) % MAP_HEIGHT>>

CellOffset(camera, local_x, local_y) ==
    <<(camera[1] + local_x) % MAP_WIDTH, (camera[2] + local_y) % MAP_HEIGHT>>

\* build_viewport lines 111-123: the stitched tile grid.
ViewTiles(scr, camera, width, height) ==
    [local_y \in 0..(height - 1) |->
        [local_x \in 0..(width - 1) |->
            scr[CellScreen(camera, local_x, local_y)]
               .terrain[CellOffset(camera, local_x, local_y)[2]]
                       [CellOffset(camera, local_x, local_y)[1]]]]

\* build_viewport line 121: self.screens[(screen_x, screen_y)] raises KeyError
\* for a cell outside the world.
RaisesKeyError(scr, camera, width, height) ==
    \E local_x \in 0..(width - 1), local_y \in 0..(height - 1) :
        CellScreen(camera, local_x, local_y) \notin DOMAIN scr

\* The test of lines 139, 148 and 154.
InCamera(camera, width, height, wx, wy) ==
    /\ camera[1] <= wx /\ wx < camera[1] + width
    /\ camera[2] <= wy /\ wy < camera[2] + height

RECURSIVE Flatten(_)
Flatten(ss) == IF ss = <<>> THEN <<>> ELSE Head(ss) \o Flatten(Tail(ss))

\* build_viewport lines 134-142, for one screen of the rectangle.
ScreenFootprints(scr, fps, camera, width, height, sc) ==
    LET base_x == sc[1] * MAP_WIDTH
        base_y == sc[2] * MAP_HEIGHT
        inside == SelectSeq(GetFootprints(fps, sc),
                     LAMBDA f : InCamera(camera, width, height, base_x + f[1], base_y + f[2]))
    IN  IF "footprint" \in scr[sc].tiles
        THEN [i \in 1..Len(inside) |->
                 <<base_x + inside[i][1] - camera[1], base_y + inside[i][2] - camera[2],
                   "footprint">>]
        ELSE <<>>

\* build_viewport lines 144-149
ScreenEnemies(scr, camera, width, height, sc) ==
    LET base_x == sc[1] * MAP_WIDTH
        base_y == sc[2] * MAP_HEIGHT
        inside == SelectSeq(scr[sc].enemies,
                     LAMBDA e : /\ ~e.defeated
                                /\ InCamera(camera, width, height, base_x + e.x, base_y + e.y))
    IN  [i \in 1..Len(inside) |->
            <<inside[i], base_x + inside[i].x - camera[1], base_y + inside[i].y - camera[2]>>]

\* build_viewport lines 151-157
ScreenCharacters(scr, camera, width, height, sc) ==
    LET base_x == sc[1] * MAP_WIDTH
        base_y == sc[2] * MAP_HEIGHT
        inside == SelectSeq(scr[sc].characters,
                     LAMBDA c : InCamera(camera, width, height, base_x + c.x, base_y + c.y))
    IN  [i \in 1..Len(inside) |->
            <<inside[i], base_x + inside[i].x - camera[1], base_y + inside[i].y - camera[2]>>]

\* World.build_viewport: the ViewportData, or the KeyError it raises.
BuildViewportData(scr, pl, fps, width, height) ==
    LET camera == CameraOrigin(pl, width, height)
        rect == ScreensInRect(camera[1], camera[2], width, height)
    IN  IF RaisesKeyError(scr, camera, width, height)
        THEN [built |-> TRUE, raised |-> TRUE, width |-> width, height |-> height]
        ELSE [built |-> TRUE, raised |-> FALSE, width |-> width, height |-> height,
              tiles |-> ViewTiles(scr, camera, width, height),
              player_position |-> <<WorldXY(pl)[1] - camera[1], WorldXY(pl)[2] - camera[2]>>,
              camera |-> camera,
              enemies |-> Flatten([i \in 1..Len(rect) |->
                              ScreenEnemies(scr, camera, width, height, rect[i])]),
              characters |-> Flatten([i \in 1..Len(rect) |->
                              ScreenCharacters(scr, camera, width, height, rect[i])]),
              footprints |-> Flatten([i \in 1..Len(rect) |->
                              ScreenFootprints(scr, fps, camera, width, height, rect[i])])]

RECURSIVE StoreAfterScreens(_, _, _)
\* build_viewport lines 129-136: the player's dict after the get_footprints
\* calls made for the screens of the rectangle that have a footprint tile.
StoreAfterScreens(scr, fps, rect) ==
    IF rect = <<>> THEN fps
    ELSE StoreAfterScreens(scr,
                           IF "footprint" \in scr[Head(rect)].tiles
                           THEN StoreAfterGetFootprints(fps, Head(rect))
                           ELSE fps,
                           Tail(rect))

\* build_viewport: the player's dict after the call; a KeyError of the tile
\* loop (lines 111-123) ends the call before any get_footprints.
StoreAfterViewport(scr, pl, fps, width, height) ==
    LET camera == CameraOrigin(pl, width, height)
    IN  IF RaisesKeyError(scr, camera, width, height) THEN fps
        ELSE StoreAfterScreens(scr, fps, ScreensInRect(camera[1], camera[2], width, height))

\* One call world.build_viewport(player, width=width, height=height).
BuildViewport(width, height) ==
    /\ view' = BuildViewportData(screens, player, footprints, width, height)
    /\ footprints' = StoreAfterViewport(screens, player, footprints, width, height)
    /\ UNCHANGED <<dims, worldVars, player, current_battle, inventory_open,
                   moves, visits, limit, gen, wcall, pc, build, catalog, hero, canvas, time_elapsed, species, search, fight, inv>>

\* World.time_elapsed, in ticks, of the worlds build_viewport is called on.
MaxTime == 1

ViewDims == [cols |-> ViewCols, rows |-> ViewRows,
             map_width |-> ViewMapW, map_height |-> ViewMapH]

\* A trail the movement handler can have left: on every screen of biome
\* "winter", the first two walkable tiles.
SampleTrail(scr) ==
    [s \in {t \in DOMAIN scr : scr[t].biome = "winter"} |->
        SubSeq(WalkableTiles(scr[s].terrain), 1, 2)]

\* A built world, the player on any walkable tile no live enemy stands on,
\* with or without a trail of footprints.
InitView ==
    /\ dims = ViewDims
    /\ \E layout \in 0..MaxLayout : screens = SampleScreens(layout)
    /\ spawn_screen = <<WORLD_COLUMNS \div 2, WORLD_ROWS \div 2>>
    /\ spawn_position = FindSpawn(screens[spawn_screen].terrain)
    /\ \E s \in ScreenCoords, x \in 0..(MAP_WIDTH - 1), y \in 0..(MAP_HEIGHT - 1) :
          /\ Walkable(screens[s].terrain, x, y)
          /\ \A i \in 1..Len(screens[s].enemies) :
                screens[s].enemies[i].defeated
                  \/ <<screens[s].enemies[i].x, screens[s].enemies[i].y>> # <<x, y>>
          /\ player = [screen_x |-> s[1], screen_y |-> s[2], x |-> x, y |-> y]
    /\ footprints \in {<<>>, SampleTrail(screens)}
    /\ current_battle = NoBattle
    /\ inventory_open = FALSE
    /\ moves = 0
    /\ view = NoView
    /\ visits = <<>>
    /\ limit = None
    /\ gen = NoGen
    /\ wcall = NoCall
    /\ pc = "idle"
    /\ build = NoBuild
    /\ catalog = NoCatalog
    /\ hero = NoHero
    /\ canvas = NoCanvas
    /\ time_elapsed \in 0..MaxTime
    /\ species = NoSpecies
    /\ search = NoSearch
    /\ fight = NoFight
    /\ inv = NoInv

NextView ==
    \E width \in 1..MaxWinW, height \in 1..MaxWinH : BuildViewport(width, height)

SpecView == InitView /\ [][NextView]_vars

-----------------------------------------------------------------------------
(* main.py: the game loop (run_ascii and run_pygame share these handlers) *)

\* Player.position()
Position(pl) == <<pl.screen_x, pl.screen_y, pl.x, pl.y>>

\* A mutant of EnemyUnder: the defeated flag is not tested.
EnemyUnderAnyEnemy(scr, pl) ==
    LET list == scr[<<pl.screen_x, pl.screen_y>>].enemies
        hits == {i \in 1..Len(list) : list[i].x = pl.x /\ list[i].y = pl.y}
    IN  IF hits = {} THEN 0 ELSE CHOOSE i \in hits : \A j \in hits : i <= j

\* main.py lines 249-258: the first live enemy of the player's screen that
\* stands on the player's tile, as its index in the screen's list, or 0.
EnemyUnder(scr, pl) ==
    LET list == scr[<<pl.screen_x, pl.screen_y>>].enemies
        hits == {i \in 1..Len(list) :
                   ~list[i].defeated /\ list[i].x = pl.x /\ list[i].y = pl.y}
    IN  IF hits = {} THEN 0 ELSE CHOOSE i \in hits : \A j \in hits : i <= j

\* A mutant of Move: the walkable flag of the target tile is not tested.
MoveThroughWalls(dx, dy) ==
    /\ ~current_battle.active
    /\ ~inventory_open
    /\ moves < MaxMoves
    /\ LET previous_state == Position(player)
           previous_screen_coords == <<player.screen_x, player.screen_y>>
           previous_tile == <<player.x, player.y>>
           raw_x == player.x + dx
           raw_y == player.y + dy
           blocked_x == \/ raw_x < 0 /\ ~(player.screen_x > 0)
                        \/ raw_x >= MAP_WIDTH /\ ~(player.screen_x < WORLD_COLUMNS - 1)
           blocked_y == \/ raw_y < 0 /\ ~(player.screen_y > 0)
                        \/ raw_y >= MAP_HEIGHT /\ ~(player.screen_y < WORLD_ROWS - 1)
           screen_dx == IF raw_x < 0 THEN -1 ELSE IF raw_x >= MAP_WIDTH THEN 1 ELSE 0
           screen_dy == IF raw_y < 0 THEN -1 ELSE IF raw_y >= MAP_HEIGHT THEN 1 ELSE 0
           new_x == IF raw_x < 0 THEN MAP_WIDTH - 1 ELSE IF raw_x >= MAP_WIDTH THEN 0 ELSE raw_x
           new_y == IF raw_y < 0 THEN MAP_HEIGHT - 1 ELSE IF raw_y >= MAP_HEIGHT THEN 0 ELSE raw_y
           target_screen == <<player.screen_x + screen_dx, player.screen_y + screen_dy>>
           moved == [screen_x |-> target_screen[1], screen_y |-> target_screen[2],
                     x |-> new_x, y |-> new_y]
       IN  IF blocked_x \/ blocked_y
           THEN UNCHANGED <<player, footprints, current_battle>>
           ELSE /\ player' = moved
                /\ footprints' =
                     IF screens[previous_screen_coords].biome = "winter"
                     THEN LeaveFootprint(footprints, previous_screen_coords,
                                         previous_tile, None)
                     ELSE footprints
                /\ current_battle' =
                     IF EnemyUnder(screens, moved) # 0
                     THEN [active |-> TRUE, exited |-> FALSE,
                           enemy_screen |-> target_screen,
                           enemy |-> EnemyUnder(screens, moved),
                           previous_state |-> previous_state]
                     ELSE current_battle
    /\ inventory_open' = FALSE
    /\ moves' = moves + 1
    /\ view' = NoView
    /\ UNCHANGED <<dims, worldVars, visits, limit, gen, wcall, pc, build, catalog, hero, canvas, time_elapsed, species, search, fight, inv>>

\* main.py lines 169-258: one movement key (dx, dy) while no battle is
\* running and the inventory is closed.
Move(dx, dy) ==
    /\ ~current_battle.active
    /\ ~inventory_open
    /\ moves < MaxMoves
    /\ LET previous_state == Position(player)
           previous_screen_coords == <<player.screen_x, player.screen_y>>
           previous_tile == <<player.x, player.y>>
           raw_x == player.x + dx
           raw_y == player.y + dy
           blocked_x == \/ raw_x < 0 /\ ~(player.screen_x > 0)
                        \/ raw_x >= MAP_WIDTH /\ ~(player.screen_x < WORLD_COLUMNS - 1)
           blocked_y == \/ raw_y < 0 /\ ~(player.screen_y > 0)
                        \/ raw_y >= MAP_HEIGHT /\ ~(player.screen_y < WORLD_ROWS - 1)
           screen_dx == IF raw_x < 0 THEN -1 ELSE IF raw_x >= MAP_WIDTH THEN 1 ELSE 0
           screen_dy == IF raw_y < 0 THEN -1 ELSE IF raw_y >= MAP_HEIGHT THEN 1 ELSE 0
           new_x == IF raw_x < 0 THEN MAP_WIDTH - 1 ELSE IF raw_x >= MAP_WIDTH THEN 0 ELSE raw_x
           new_y == IF raw_y < 0 THEN MAP_HEIGHT - 1 ELSE IF raw_y >= MAP_HEIGHT THEN 0 ELSE raw_y
           target_screen == <<player.screen_x + screen_dx, player.screen_y + screen_dy>>
           moved == [screen_x |-> target_screen[1], screen_y |-> target_screen[2],
                     x |-> new_x, y |-> new_y]
       IN  IF blocked_x \/ blocked_y
              \/ ~Walkable(screens[target_screen].terrain, new_x, new_y)
           THEN UNCHANGED <<player, footprints, current_battle>>
           ELSE /\ player' = moved
                /\ footprints' =
                     IF screens[previous_screen_coords].biome = "winter"
                     THEN LeaveFootprint(footprints, previous_screen_coords,
                                         previous_tile, None)
                     ELSE footprints
                /\ current_battle' =
                     IF EnemyUnder(screens, moved) # 0
                     THEN [active |-> TRUE, exited |-> FALSE,
                           enemy_screen |-> target_screen,
                           enemy |-> EnemyUnder(screens, moved),
                           previous_state |-> previous_state]
                     ELSE current_battle
    /\ inventory_open' = FALSE
    /\ moves' = moves + 1
    /\ view' = NoView
    /\ UNCHANGED <<dims, worldVars, visits, limit, gen, wcall, pc, build, catalog, hero, canvas, time_elapsed, species, search, fight, inv>>

\* The scaled numbers of a battle: Player.max_hp (20 + 2 * strength), the
\* largest damage of one attack (attack_max, max(1, strength)) and the
\* enemy's reward_talents.
HeroMaxHp == 3
MaxDamage == 2
RewardTalents == 5

\* Player.__init__: self.talents = 100
StartTalents == 100

\* Battle.bribe_cost for one enemy: ceil(10 + max(base, base * 1.5)) with
\* base = talents * 0.15, that is 10 + ceil(talents * 9 / 40).
BribeCost(talents) == Max(0, 10 + ((9 * talents + 39) \div 40))

\* A mutant of AttackRound: the second actor acts although the first has
\* finished the battle.
AttackRoundBothAct(enemy_hp, player_hp, player_first, player_damage, enemy_damage) ==
    LET hit_enemy == Max(0, enemy_hp - player_damage)
        hit_player == Max(0, player_hp - enemy_damage)
    IN  [enemy_hp |-> hit_enemy, player_hp |-> hit_player,
         result |-> IF player_first
                    THEN (IF hit_enemy <= 0 THEN "victory"
                          ELSE IF hit_player <= 0 THEN "defeat" ELSE "none")
                    ELSE (IF hit_player <= 0 THEN "defeat"
                          ELSE IF hit_enemy <= 0 THEN "victory" ELSE "none")]

\* Battle.attack_round with the draws player_damage and enemy_damage: the
\* enemy's hp, the player's hp and Battle.result after the round. The
\* stronger side (Player.average_power against Enemy.average_power, the
\* player on a tie) acts first; a side does not act once the battle is finished.
AttackRound(enemy_hp, player_hp, player_first, player_damage, enemy_damage) ==
    LET hit_enemy == Max(0, enemy_hp - player_damage)
        hit_player == Max(0, player_hp - enemy_damage)
    IN  IF player_first
        THEN IF hit_enemy <= 0
             THEN [enemy_hp |-> hit_enemy, player_hp |-> player_hp, result |-> "victory"]
             ELSE [enemy_hp |-> hit_enemy, player_hp |-> hit_player,
                   result |-> IF hit_player <= 0 THEN "defeat" ELSE "none"]
        ELSE IF hit_player <= 0
             THEN [enemy_hp |-> enemy_hp, player_hp |-> hit_player, result |-> "defeat"]
             ELSE [enemy_hp |-> hit_enemy, player_hp |-> hit_player,
                   result |-> IF hit_enemy <= 0 THEN "victory" ELSE "none"]

\* A mutant of EnemiesAfterBattle: the fought enemy keeps its hp when the
\* battle ends with run or bribe.
EnemiesAfterBattleKeepsHp(list, i, result) ==
    IF result = "victory"
    THEN SubSeq(list, 1, i - 1) \o SubSeq(list, i + 1, Len(list))
    ELSE [list EXCEPT ![i].defeated = FALSE]

(* The enemy list of the battle's screen once a battle has finished with    *)
(* victory, run or bribe. main.py lines 124-146: on victory the enemy is    *)
(* removed; on run main.py resets its hp; on bribe Battle.bribe (lines      *)
(* 121-122) has cleared `defeated` and reset hp.                            *)
EnemiesAfterBattle(list, i, result) ==
    IF result = "victory"
    THEN SubSeq(list, 1, i - 1) \o SubSeq(list, i + 1, Len(list))
    ELSE IF result = "run"
    THEN [list EXCEPT ![i].hp = list[i].max_hp]
    ELSE [list EXCEPT ![i].defeated = FALSE, ![i].hp = list[i].max_hp]

\* What every battle key leaves alone.
battleFrame == <<dims, spawn_screen, spawn_position, footprints, inventory_open,
                 visits, limit, gen, wcall, pc, build, catalog, canvas, time_elapsed, species, search, fight, inv>>

\* main.py lines 104-107 and 115-146: key 1, one attack round, and the
\* handling of a battle it finishes.
BattleAttack ==
    /\ current_battle.active
    /\ ~current_battle.exited
    /\ moves < MaxMoves
    /\ \E player_damage \in 1..MaxDamage, enemy_damage \in 1..MaxDamage :
         LET s == current_battle.enemy_screen
             i == current_battle.enemy
             list == screens[s].enemies
             round == CHOOSE r \in {AttackRound(list[i].hp, hero.hp, hero.first,
                                                player_damage, enemy_damage)} : TRUE
         IN  CASE round.result = "defeat" ->
                    /\ current_battle' = [current_battle EXCEPT !.exited = TRUE]
                    /\ screens' = [screens EXCEPT ![s].enemies[i].hp = round.enemy_hp]
                    /\ hero' = [hero EXCEPT !.hp = round.player_hp,
                                            !.outcomes = Append(@, "defeat")]
               [] round.result = "victory" ->
                    /\ current_battle' = NoBattle
                    /\ screens' = [screens EXCEPT ![s].enemies =
                                      EnemiesAfterBattle(list, i, "victory")]
                    /\ hero' = [hero EXCEPT !.hp = round.player_hp,
                                            !.talents = @ + RewardTalents,
                                            !.outcomes = Append(@, "victory")]
               [] OTHER ->
                    /\ current_battle' = current_battle
                    /\ screens' = [screens EXCEPT ![s].enemies[i].hp = round.enemy_hp]
                    /\ hero' = [hero EXCEPT !.hp = round.player_hp]
    /\ moves' = moves + 1
    /\ view' = NoView
    /\ UNCHANGED <<battleFrame, player>>

(* main.py lines 108-110: key 2, Battle.run_away. No attempt is locked yet  *)
(* (the lock is set only after a roll), so run_away calls can_run, which    *)
(* reads self.player.dexterity (battle.py line 74); engine/player.py        *)
(* defines strength, agility and intelligence but no dexterity: the         *)
(* AttributeError leaves the game loop.                                     *)
BattleRunAway ==
    /\ current_battle.active
    /\ ~current_battle.exited
    /\ moves < MaxMoves
    /\ current_battle' = [current_battle EXCEPT !.exited = TRUE]
    /\ hero' = [hero EXCEPT !.outcomes = Append(@, "AttributeError")]
    /\ moves' = moves + 1
    /\ view' = NoView
    /\ UNCHANGED <<battleFrame, screens, player>>

\* main.py lines 111-113 and 115-146: key 3, Battle.bribe, and the handling
\* of the battle it finishes.
BattleBribe ==
    /\ current_battle.active
    /\ ~current_battle.exited
    /\ moves < MaxMoves
    /\ LET s == current_battle.enemy_screen
           i == current_battle.enemy
           prev == current_battle.previous_state
           cost == BribeCost(hero.talents)
       IN  IF hero.talents < cost
           THEN UNCHANGED <<screens, player, current_battle, hero>>
           ELSE /\ hero' = [hero EXCEPT !.talents = Max(0, @ - cost),
                                        !.outcomes = Append(@, "bribe")]
                /\ screens' = [screens EXCEPT ![s].enemies =
                                  EnemiesAfterBattle(screens[s].enemies, i, "bribe")]
                /\ player' = [screen_x |-> prev[1], screen_y |-> prev[2],
                              x |-> prev[3], y |-> prev[4]]
                /\ current_battle' = NoBattle
    /\ moves' = moves + 1
    /\ view' = NoView
    /\ UNCHANGED battleFrame

\* main.py lines 49-66: the world is built and the player starts on its
\* spawn tile.
InitGame ==
    /\ dims = ViewDims
    /\ \E layout \in 0..MaxLayout : screens = SampleScreens(layout)
    /\ spawn_screen = <<WORLD_COLUMNS \div 2, WORLD_ROWS \div 2>>
    /\ spawn_position = FindSpawn(screens[spawn_screen].terrain)
    /\ player = [screen_x |-> spawn_screen[1], screen_y |-> spawn_screen[2],
                 x |-> spawn_position[1], y |-> spawn_position[2]]
    /\ footprints = <<>>
    /\ current_battle = NoBattle
    /\ inventory_open = FALSE
    /\ moves = 0
    /\ view = NoView
    /\ visits = <<>>
    /\ limit = None
    /\ gen = NoGen
    /\ wcall = NoCall
    /\ pc = "idle"
    /\ build = NoBuild
    /\ catalog = NoCatalog
    /\ \E first \in BOOLEAN :
          hero = [hp |-> HeroMaxHp, talents |-> StartTalents, first |-> first,
                  outcomes |-> <<>>]
    /\ canvas = NoCanvas
    /\ time_elapsed = 0
    /\ species = NoSpecies
    /\ search = NoSearch
    /\ fight = NoFight
    /\ inv = NoInv

NextGame ==
    \/ \E d \in {<<0, -1>>, <<0, 1>>, <<-1, 0>>, <<1, 0>>} : Move(d[1], d[2])
    \/ BattleAttack
    \/ BattleRunAway
    \/ BattleBribe
    \/ \E width \in 1..MaxWinW, height \in 1..MaxWinH : BuildViewport(width, height)

SpecGame == InitGame /\ [][NextGame]_vars

-----------------------------------------------------------------------------
(* Properties of World.build_viewport *)

Returned == view.built /\ ~view.raised

\* The tile of the flattened world coordinate (wx, wy): the cell (x, y) of the
\* screen s with s[1] * MAP_WIDTH + x = wx and s[2] * MAP_HEIGHT + y = wy.
WorldTile(wx, wy) ==
    LET at == CHOOSE c \in ScreenCoords \X (0..(MAP_WIDTH - 1)) \X (0..(MAP_HEIGHT - 1)) :
                 /\ c[1][1] * MAP_WIDTH + c[2] = wx
                 /\ c[1][2] * MAP_HEIGHT + c[3] = wy
    IN  screens[at[1]].terrain[at[3]][at[2]]

\* C1: for a window of w columns and h rows inside the world, build_viewport
\* returns a grid of exactly h rows of w tiles each and a local player
\* position (px, py) with 0 <= px < w and 0 <= py < h.
C1_ViewportGrid ==
    view.built =>
        /\ ~view.raised
        /\ DOMAIN view.tiles = 0..(view.height - 1)
        /\ \A ly \in DOMAIN view.tiles : DOMAIN view.tiles[ly] = 0..(view.width - 1)
        /\ view.player_position[1] \in 0..(view.width - 1)
        /\ view.player_position[2] \in 0..(view.height - 1)

\* C1 happens: a window wider than one screen was built while the camera is
\* held at a world edge, so the player is off the window's centre.
C1_Witness ==
    /\ Returned
    /\ view.width > MAP_WIDTH
    /\ view.player_position # <<view.width \div 2, view.height \div 2>>

\* C2: the camera origin (cx, cy) of the returned viewport satisfies
\* 0 <= cx <= total_width - w and 0 <= cy <= total_height - h, and on each
\* axis it equals the centred value (world_x - w div 2, world_y - h div 2)
\* whenever that value is within those bounds.
C2_CameraClamp ==
    Returned =>
        LET wx == player.screen_x * MAP_WIDTH + player.x
            wy == player.screen_y * MAP_HEIGHT + player.y
            gx == wx - (view.width \div 2)
            gy == wy - (view.height \div 2)
        IN  /\ 0 <= view.camera[1] /\ view.camera[1] <= TotalWidth - view.width
            /\ 0 <= view.camera[2] /\ view.camera[2] <= TotalHeight - view.height
            /\ (0 <= gx /\ gx <= TotalWidth - view.width) => view.camera[1] = gx
            /\ (0 <= gy /\ gy <= TotalHeight - view.height) => view.camera[2] = gy

\* C2 happens: a viewport wider and higher than one cell whose camera is
\* centred on the player, away from the world's origin.
C2_Witness ==
    /\ Returned
    /\ view.width > 1 /\ view.height > 1
    /\ view.camera[1] > 0 /\ view.camera[2] > 0
    /\ view.camera[1] = player.screen_x * MAP_WIDTH + player.x - (view.width \div 2)
    /\ view.camera[2] = player.screen_y * MAP_HEIGHT + player.y - (view.height \div 2)

\* C3: the tile at local (lx, ly) of the returned grid is the tile of the
\* world coordinate (cx + lx, cy + ly), whichever screen holds it.
C3_TileStitching ==
    Returned =>
        \A ly \in 0..(view.height - 1), lx \in 0..(view.width - 1) :
            view.tiles[ly][lx] = WorldTile(view.camera[1] + lx, view.camera[2] + ly)

\* C3 happens: the window shows tiles of four different screens.
C3_Witness ==
    /\ Returned
    /\ Cardinality({<<(view.camera[1] + lx) \div MAP_WIDTH, (view.camera[2] + ly) \div MAP_HEIGHT>> :
                       lx \in 0..(view.width - 1), ly \in 0..(view.height - 1)}) = 4

\* The entities of kind k ("enemies" or "characters") that C4 expects in the
\* window: <<screen, index in the screen's list>>.
Expected(k) ==
    {si \in UNION {{<<s, i>> : i \in 1..Len(screens[s][k])} : s \in ScreenCoords} :
        /\ (k = "enemies" => ~screens[si[1]][k][si[2]].defeated)
        /\ InCamera(view.camera, view.width, view.height,
                    si[1][1] * MAP_WIDTH + screens[si[1]][k][si[2]].x,
                    si[1][2] * MAP_HEIGHT + screens[si[1]][k][si[2]].y)}

Projected(k, si) ==
    <<screens[si[1]][k][si[2]],
      si[1][1] * MAP_WIDTH + screens[si[1]][k][si[2]].x - view.camera[1],
      si[1][2] * MAP_HEIGHT + screens[si[1]][k][si[2]].y - view.camera[2]>>

\* C4: every non-defeated enemy and every character whose world coordinate
\* lies in the camera rectangle appears exactly once in the viewport's
\* list, at local coordinates (world_x - cx, world_y - cy); defeated enemies
\* and entities outside the rectangle do not appear.
C4_EntityProjection ==
    Returned =>
        \A k \in {"enemies", "characters"} :
            /\ Len(view[k]) = Cardinality(Expected(k))
            /\ \A si \in Expected(k) : \E n \in 1..Len(view[k]) : view[k][n] = Projected(k, si)
            /\ \A n \in 1..Len(view[k]) : \E si \in Expected(k) : view[k][n] = Projected(k, si)

\* C4 happens: the window shows an enemy and a character of different
\* screens, while a defeated enemy standing inside the rectangle is left out.
C4_Witness ==
    /\ Returned
    /\ Len(view.enemies) >= 1
    /\ Len(view.characters) >= 1
    /\ \E n \in 1..Len(view.enemies), m \in 1..Len(view.characters) :
          <<view.enemies[n][1].screen_x, view.enemies[n][1].screen_y>>
             # <<view.characters[m][1].screen_x, view.characters[m][1].screen_y>>
    /\ \E s \in ScreenCoords : \E i \in 1..Len(screens[s].enemies) :
          /\ screens[s].enemies[i].defeated
          /\ InCamera(view.camera, view.width, view.height,
                      s[1] * MAP_WIDTH + screens[s].enemies[i].x,
                      s[2] * MAP_HEIGHT + screens[s].enemies[i].y)

-----------------------------------------------------------------------------
(* Properties of the footprints in the game loop *)

\* C9: in the game loop no screen's footprint list ever holds more than two
\* entries.
C9_FootprintCap ==
    \A s \in DOMAIN footprints : Len(footprints[s]) <= 2

\* C10: build_viewport returns a non-empty footprints list only while the
\* player stands on a footprint-capable screen: one whose biome is winter or
\* whose palette has a footprint tile.
C10_FootprintsOnlyOnCapableScreen ==
    (Returned /\ view.footprints # <<>>) =>
        \/ screens[<<player.screen_x, player.screen_y>>].biome = "winter"
        \/ "footprint" \in screens[<<player.screen_x, player.screen_y>>].tiles

-----------------------------------------------------------------------------
(* data/tiles.py, data/loader.py: the biome cache and the data file *)

\* How many catalog calls one run makes.
MaxCalls == 4

\* The biome ids a caller passes: the keys of BIOME_CONFIGS and "swamp",
\* an id with no entry in BIOME_CONFIGS.
BiomeIds == CatalogBiomes \cup {"swamp"}

\* BIOME_CONFIGS.get(biome, BIOME_CONFIGS["summer"])
ConfigFor(biome) == IF biome \in CatalogBiomes THEN biome ELSE "summer"

\* _build_biome(name, config): the definition of the config under the given name.
BuildBiome(name, config) == [BiomeDefinition(config) EXCEPT !.name = name]

\* get_biome_definition without the membership test: builds on every call.
GetBiomeDefinitionAlwaysBuilds(cat, biome) ==
    [cat EXCEPT !.cache = (biome :> [object |-> cat.builds + 1,
                                     value |-> BuildBiome(biome, ConfigFor(biome))]) @@ @,
                !.builds = @ + 1]

(* get_biome_definition, lines 249-251: the cache and the number of         *)
(* _build_biome calls after a call for `biome`. A cached definition is an   *)
(* object (its identity is the number of the build that made it) with a     *)
(* value.                                                                    *)
GetBiomeDefinition(cat, biome) ==
    IF biome \notin DOMAIN cat.cache
    THEN [cat EXCEPT !.cache = (biome :> [object |-> cat.builds + 1,
                                          value |-> BuildBiome(biome, ConfigFor(biome))]) @@ @,
                     !.builds = @ + 1]
    ELSE cat

\* One call get_biome_definition(biome): line 252 returns the cached object.
CallGetBiomeDefinition(biome) ==
    /\ Len(catalog.calls) < MaxCalls
    /\ catalog' = [GetBiomeDefinition(catalog, biome) EXCEPT
                     !.calls = Append(@, [fn |-> "get_biome_definition",
                                          biome |-> biome,
                                          raised |-> FALSE,
                                          returned |-> GetBiomeDefinition(catalog, biome).cache[biome]])]
    /\ UNCHANGED <<dims, worldVars, player, footprints, current_battle, inventory_open,
                   moves, view, visits, limit, gen, wcall, pc, build, hero, canvas, time_elapsed, species, search, fight, inv>>

\* One call load_game_data(): raises FileNotFoundError when the file is absent.
CallLoadGameData ==
    /\ Len(catalog.calls) < MaxCalls
    /\ catalog' = [catalog EXCEPT
                     !.calls = Append(@, [fn |-> "load_game_data",
                                          biome |-> "",
                                          raised |-> ~catalog.file_exists,
                                          returned |-> catalog.file_exists])]
    /\ UNCHANGED <<dims, worldVars, player, footprints, current_battle, inventory_open,
                   moves, view, visits, limit, gen, wcall, pc, build, hero, canvas, time_elapsed, species, search, fight, inv>>

\* One call save_game_data(data): writes the file.
CallSaveGameData ==
    /\ Len(catalog.calls) < MaxCalls
    /\ catalog' = [catalog EXCEPT
                     !.file_exists = TRUE,
                     !.calls = Append(@, [fn |-> "save_game_data",
                                          biome |-> "",
                                          raised |-> FALSE,
                                          returned |-> TRUE])]
    /\ UNCHANGED <<dims, worldVars, player, footprints, current_battle, inventory_open,
                   moves, view, visits, limit, gen, wcall, pc, build, hero, canvas, time_elapsed, species, search, fight, inv>>

(* After `import data.tiles`: line 262 has called get_biome_tiles("summer"), *)
(* so the cache holds the summer definition, built once. The data file is    *)
(* present or absent.                                                        *)
InitCatalog ==
    /\ dims = NoDims
    /\ screens = <<>>
    /\ spawn_screen = <<0, 0>>
    /\ spawn_position = <<0, 0>>
    /\ player = NoPlayer
    /\ footprints = <<>>
    /\ current_battle = NoBattle
    /\ inventory_open = FALSE
    /\ moves = 0
    /\ view = NoView
    /\ visits = <<>>
    /\ limit = 0
    /\ gen = NoGen
    /\ wcall = NoCall
    /\ pc = "idle"
    /\ build = NoBuild
    /\ \E file_exists \in BOOLEAN :
         catalog = GetBiomeDefinition([cache |-> <<>>, builds |-> 0, calls |-> <<>>,
                                       file_exists |-> file_exists], "summer")
    /\ hero = NoHero
    /\ canvas = NoCanvas
    /\ time_elapsed = 0
    /\ species = NoSpecies
    /\ search = NoSearch
    /\ fight = NoFight
    /\ inv = NoInv

NextCatalog ==
    \/ \E biome \in BiomeIds : CallGetBiomeDefinition(biome)
    \/ CallLoadGameData
    \/ CallSaveGameData

SpecCatalog == InitCatalog /\ [][NextCatalog]_vars

\* The get_biome_definition calls of the history, as indices into it.
BiomeCalls == {i \in 1..Len(catalog.calls) : catalog.calls[i].fn = "get_biome_definition"}

\* C11: two calls of get_biome_definition with the same id, whatever calls
\* lie between them, return the same object with the same value, and a call
\* for an id already in the cache builds nothing and leaves the cache as it was.
C11_Memoized ==
    /\ [](\A i, j \in BiomeCalls :
            catalog.calls[i].biome = catalog.calls[j].biome
              => catalog.calls[i].returned = catalog.calls[j].returned)
    /\ [][\A biome \in DOMAIN catalog.cache :
            CallGetBiomeDefinition(biome)
              => /\ catalog'.cache = catalog.cache
                 /\ catalog'.builds = catalog.builds]_vars

\* Two calls for one id with a call for another id between them.
C11_Witness ==
    \E i, j, k \in BiomeCalls :
        /\ i < k /\ k < j
        /\ catalog.calls[i].biome = catalog.calls[j].biome
        /\ catalog.calls[k].biome # catalog.calls[i].biome
        /\ catalog.calls[i].biome # "summer"

\* C16: loading the catalog with its data file absent raises, and a call of
\* get_biome_definition for an id with no entry in BIOME_CONFIGS raises, with
\* no definition returned or cached for that id.
C16_MissingCatalogRaises ==
    /\ \A i \in 1..Len(catalog.calls) :
         LET call == catalog.calls[i]
         IN  /\ (call.fn = "get_biome_definition" /\ call.biome \notin CatalogBiomes)
                  => call.raised
             /\ (call.fn = "load_game_data" /\ ~call.returned) => call.raised
    /\ DOMAIN catalog.cache \subseteq CatalogBiomes

-----------------------------------------------------------------------------
(* build_world: where enemies and characters stand *)

\* The enemies and the characters of a built screen, as sets of records.
EnemiesOf(s) == {screens[s].enemies[i] : i \in 1..Len(screens[s].enemies)}
CharactersOf(s) == {screens[s].characters[i] : i \in 1..Len(screens[s].characters)}

\* C12: at the end of build_world every enemy and every character of a
\* screen's lists stands on a tile that is walkable in that screen's terrain.
C12_EntitiesOnWalkable ==
    pc = "built" =>
        \A s \in DOMAIN screens :
            \A ent \in EnemiesOf(s) \cup CharactersOf(s) :
                TileWalkable(screens[s].terrain[ent.y][ent.x])

\* An enemy moved off the spawn tile and a character, on a terrain that has
\* non-walkable tiles.
C12_Witness ==
    /\ pc = "built"
    /\ build.relocated = 1
    /\ \E e \in EnemiesOf(spawn_screen) : ~e.defeated
    /\ CharactersOf(spawn_screen) # {}
    /\ \E c \in Cells : ~TileWalkable(screens[spawn_screen].terrain[c[2]][c[1]])

\* C13: after build_world the world holds at most 5 characters, no screen
\* holds more than one, and no character stands on the tile of an enemy of
\* its screen.
C13_CharactersApart ==
    pc = "built" =>
        /\ \A s \in DOMAIN screens : Len(screens[s].characters) <= 1
        /\ Cardinality({s \in DOMAIN screens : Len(screens[s].characters) > 0}) <= 5
        /\ \A s \in DOMAIN screens :
              \A w \in CharactersOf(s), e \in EnemiesOf(s) : <<w.x, w.y>> # <<e.x, e.y>>

\* C18: an enemy that was placed on the spawn tile is, at the end of
\* build_world, flagged defeated or on a walkable tile other than the spawn tile.
C18_SpawnTileEnemy ==
    (pc = "built" /\ build.relocated > 0) =>
        \A e \in EnemiesOf(spawn_screen) :
            \/ e.defeated
            \/ /\ <<e.x, e.y>> # spawn_position
               /\ TileWalkable(screens[spawn_screen].terrain[e.y][e.x])

\* The enemy was drawn on the spawn tile and the second draw accepted a tile.
C18_Witness ==
    /\ pc = "built"
    /\ build.relocated > 0
    /\ \E e \in EnemiesOf(spawn_screen) : ~e.defeated /\ <<e.x, e.y>> # <<0, 0>>

-----------------------------------------------------------------------------
(* engine/world.py: find_spawn on any terrain *)

SpawnMaxCols == 2
SpawnMaxRows == 2
SpawnMapW == 4
SpawnMapH == 3

\* The terrains find_spawn is given: every tile is a ground tile or a tree.
SpawnTerrains ==
    [0..(SpawnMapH - 1) -> [0..(SpawnMapW - 1) -> {"summer_ground", "summer_tree"}]]

\* A world of cols x rows screens, all with the same terrain, as build_world
\* holds it at line 408.
InitSpawn ==
    /\ \E cols \in 1..SpawnMaxCols, rows \in 1..SpawnMaxRows :
          dims = [cols |-> cols, rows |-> rows,
                  map_width |-> SpawnMapW, map_height |-> SpawnMapH]
    /\ \E terrain \in SpawnTerrains :
          screens = [s \in ScreenCoords |->
                        [tiles |-> BiomeDefinition("summer").tiles,
                         terrain |-> terrain,
                         biome |-> "summer",
                         biome_weights |-> <<>>,
                         enemies |-> <<>>,
                         characters |-> <<>>]]
    /\ spawn_screen = <<0, 0>>
    /\ spawn_position = <<0, 0>>
    /\ player = NoPlayer
    /\ footprints = <<>>
    /\ current_battle = NoBattle
    /\ inventory_open = FALSE
    /\ moves = 0
    /\ view = NoView
    /\ visits = <<>>
    /\ limit = None
    /\ gen = NoGen
    /\ wcall = NoCall
    /\ pc = "spawn"
    /\ build = NoBuild
    /\ catalog = NoCatalog
    /\ hero = NoHero
    /\ canvas = NoCanvas
    /\ time_elapsed = 0
    /\ species = NoSpecies
    /\ search = NoSearch
    /\ fight = NoFight
    /\ inv = NoInv

\* build_world lines 409-411.
ResolveSpawn ==
    /\ pc = "spawn"
    /\ spawn_screen' = <<WORLD_COLUMNS \div 2, WORLD_ROWS \div 2>>
    /\ spawn_position' = FindSpawn(screens[<<WORLD_COLUMNS \div 2, WORLD_ROWS \div 2>>].terrain)
    /\ pc' = "resolved"
    /\ UNCHANGED <<dims, screens, player, footprints, current_battle, inventory_open,
                   moves, view, visits, limit, gen, wcall, build, catalog, hero, canvas, time_elapsed, species, search, fight, inv>>

NextSpawn == ResolveSpawn

SpecSpawn == InitSpawn /\ [][NextSpawn]_vars

\* max(|x - cx|, |y - cy|)
RingDistance(c) == Max(Abs(c[1] - MAP_WIDTH \div 2), Abs(c[2] - MAP_HEIGHT \div 2))

\* C19: the spawn screen is the central screen; the spawn tile is the centre
\* tile when that is walkable, and otherwise, when the terrain has a walkable
\* tile, a walkable tile at the least ring distance from the centre.
C19_SpawnResolution ==
    pc = "resolved" =>
        LET terrain == screens[spawn_screen].terrain
            centre == <<MAP_WIDTH \div 2, MAP_HEIGHT \div 2>>
            walkable == {c \in Cells : TileWalkable(terrain[c[2]][c[1]])}
        IN  /\ spawn_screen = <<WORLD_COLUMNS \div 2, WORLD_ROWS \div 2>>
            /\ centre \in walkable => spawn_position = centre
            /\ (centre \notin walkable /\ walkable # {}) =>
                  /\ spawn_position \in walkable
                  /\ \A d \in walkable : RingDistance(spawn_position) <= RingDistance(d)

\* The centre and its whole first ring are blocked: the spawn tile is a
\* walkable tile of the second ring.
C19_Witness ==
    /\ pc = "resolved"
    /\ RingDistance(spawn_position) = 2
    /\ TileWalkable(screens[spawn_screen].terrain[spawn_position[2]][spawn_position[1]])
    /\ spawn_screen = <<1, 1>>

-----------------------------------------------------------------------------
(* build_world lines 297-344 on a screen that blends two biomes *)

BlendRows == 2
BlendMapW == 3
BlendMapH == 3

\* build_world lines 286-299: the loop reaches screen (0, 0) of a world one
\* screen wide, the top screen, where winter and summer both weigh above 0.01.
InitBlend ==
    /\ dims = [cols |-> 1, rows |-> BlendRows,
               map_width |-> BlendMapW, map_height |-> BlendMapH]
    /\ screens = <<>>
    /\ spawn_screen = <<0, 0>>
    /\ spawn_position = <<0, 0>>
    /\ player = NoPlayer
    /\ footprints = <<>>
    /\ current_battle = NoBattle
    /\ inventory_open = FALSE
    /\ moves = 0
    /\ view = NoView
    /\ visits = <<>>
    /\ limit = None
    /\ gen = NoGen
    /\ wcall = NoCall
    /\ pc = "maps"
    /\ build = [coords |-> <<0, 0>>,
                biome_weights |-> ScreenBiomeWeights(0),
                relevant_biomes |-> RelevantBiomes(ScreenBiomeWeights(0)),
                terrain_options |-> <<>>,
                terrain |-> <<>>,
                enemies |-> <<>>,
                characters |-> <<>>,
                relocated |-> 0]
    /\ catalog = NoCatalog
    /\ hero = NoHero
    /\ canvas = NoCanvas
    /\ time_elapsed = 0
    /\ species = NoSpecies
    /\ search = NoSearch
    /\ fight = NoFight
    /\ inv = NoInv

NextBlend ==
    \/ BuildGenerate
    \/ GenForest
    \/ GenScatterRule
    \/ GenScatterPlace
    \/ BuildStoreMap
    \/ BuildTerrain

SpecBlend == InitBlend /\ [][NextBlend]_vars

\* C20: every row of a built terrain copies, cell for cell, the same row of
\* the source map of one biome, and that biome is one of the row's choices.
C20_RowFromOneBiome ==
    pc = "enemy" =>
        \A ty \in 0..(MAP_HEIGHT - 1) :
            \E b \in Range(RowChoices(build.coords[2], ty)) :
                \A tx \in 0..(MAP_WIDTH - 1) :
                    build.terrain[ty][tx] = build.terrain_options[b][ty][tx]

-----------------------------------------------------------------------------
(* build_viewport: what a call leaves alone *)

\* C17: a build_viewport call leaves every screen (terrain, palette, enemy
\* and character lists and their fields), World.time_elapsed, the spawn data,
\* the player's position and the player's recorded footprints unchanged.
C17_ViewportReadOnly ==
    [][(\E width \in 1..MaxWinW, height \in 1..MaxWinH : BuildViewport(width, height))
          => UNCHANGED <<screens, spawn_screen, spawn_position, time_elapsed,
                         player, footprints>>]_vars

\* A call returned enemies and characters, for a world whose clock has
\* advanced, and looked up the footprints of a screen that has a footprint
\* tile and that the player's dict has no key for.
C17_Witness ==
    /\ Returned
    /\ time_elapsed > 0
    /\ Len(view.enemies) > 0
    /\ Len(view.characters) > 0
    /\ \E i \in 1..Len(ScreensInRect(view.camera[1], view.camera[2], view.width, view.height)) :
          LET sc == ScreensInRect(view.camera[1], view.camera[2], view.width, view.height)[i]
          IN  "footprint" \in screens[sc].tiles /\ sc \notin DOMAIN footprints

-----------------------------------------------------------------------------
(* engine/ui.py draw_map, engine/graphics_pygame.py PygameRenderer.draw_map *)

\* One draw call: console.print or canvas.blit of `key` at cell (x, y).
DrawEvent(layer, x, y, key) == [layer |-> layer, x |-> x, y |-> y, key |-> key]

\* tile["ground_tile"]: _build_tileset gives every tile of a biome the
\* biome's ground tile.
GroundTileOf(tile) ==
    LET b == CHOOSE b \in CatalogBiomes : tile \in BiomeDefinition(b).tiles \ COMMON_TILES
    IN  BiomeDefinition(b).ground_tile

\* PygameRenderer._resolve_key
ResolveKey(tiles, key, fallback) ==
    IF key # "" /\ key \in tiles THEN key
    ELSE IF fallback # "" /\ fallback \in tiles THEN fallback
    ELSE "default"

\* The tile images a PygameRenderer has loaded (self.tiles): every tile of
\* the catalog, or none but the default.
RendererTiles ==
    {UNION {BiomeDefinition(b).tiles : b \in CatalogBiomes} \cup {"default"}, {"default"}}

\* The cells of a map in the order of the two nested loops.
RowMajor(width, height) ==
    [i \in 1..(width * height) |-> <<(i - 1) % width, (i - 1) \div width>>]

\* ui.draw_map lines 83-85
AsciiTerrainEvents(game_map) ==
    [i \in 1..(MAP_WIDTH * MAP_HEIGHT) |->
        LET c == RowMajor(MAP_WIDTH, MAP_HEIGHT)[i]
        IN  DrawEvent("ground", c[1], c[2], game_map[c[2]][c[1]])]

\* PygameRenderer.draw_map lines 161-173: the ground image of every cell and,
\* for a cell whose tile resolves to another key, its overlay.
PygameTerrainEvents(tiles, game_map) ==
    Flatten([i \in 1..(MAP_WIDTH * MAP_HEIGHT) |->
        LET c == RowMajor(MAP_WIDTH, MAP_HEIGHT)[i]
            tile_name == game_map[c[2]][c[1]]
            ground_key == ResolveKey(tiles, GroundTileOf(tile_name), "grass")
            resolved_tile_key == ResolveKey(tiles, tile_name, ground_key)
        IN  <<DrawEvent("ground", c[1], c[2], ground_key)>>
              \o (IF resolved_tile_key # ground_key
                  THEN <<DrawEvent("overlay", c[1], c[2], resolved_tile_key)>>
                  ELSE <<>>)])

\* ui.draw_map lines 86-95: a footprint outside the console is skipped; the
\* console is SCREEN_WIDTH x SCREEN_HEIGHT, the size of a map.
AsciiFootprintEvents(fps, has_footprint_tile) ==
    IF fps # <<>> /\ has_footprint_tile
    THEN LET inside == SelectSeq(fps, LAMBDA f : /\ 0 <= f[2] /\ f[2] < MAP_HEIGHT
                                                 /\ 0 <= f[1] /\ f[1] < MAP_WIDTH)
         IN  [i \in 1..Len(inside) |->
                 DrawEvent("footprint", inside[i][1], inside[i][2], "footprint")]
    ELSE <<>>

\* PygameRenderer.draw_map lines 175-181
PygameFootprintEvents(tiles, fps, has_footprint_tile) ==
    IF fps # <<>> /\ has_footprint_tile
    THEN [i \in 1..Len(fps) |->
             DrawEvent("footprint", fps[i][1], fps[i][2],
                       ResolveKey(tiles, "footprint", "footprint"))]
    ELSE <<>>

\* ui.draw_map lines 96-105, PygameRenderer.draw_map lines 183-190
EnemyEvents(enemies, hide_enemies, key) ==
    IF enemies # <<>> /\ ~hide_enemies
    THEN LET live == SelectSeq(enemies, LAMBDA e : ~e.defeated)
         IN  [i \in 1..Len(live) |-> DrawEvent("enemy", live[i].x, live[i].y, key)]
    ELSE <<>>

\* ui.draw_map lines 106-118, PygameRenderer.draw_map lines 192-198
CharacterEvents(characters, key) ==
    [i \in 1..Len(characters) |->
        DrawEvent("character", characters[i].x, characters[i].y, key)]

\* A mutant of PygameDrawMap: the player is drawn before the entities.
PygameDrawMapPlayerEarly(tiles, game_map, pl, enemies, characters, hide_enemies, fps, has_tile) ==
    PygameTerrainEvents(tiles, game_map)
      \o PygameFootprintEvents(tiles, fps, has_tile)
      \o <<DrawEvent("player", pl.x, pl.y, ResolveKey(tiles, "", "player"))>>
      \o EnemyEvents(enemies, hide_enemies, ResolveKey(tiles, "enemy", "enemy"))
      \o CharacterEvents(characters, ResolveKey(tiles, "warlock", "warlock"))

\* PygameRenderer.draw_map: the blits on self.canvas, in order.
PygameDrawMap(tiles, game_map, pl, enemies, characters, hide_enemies, fps, has_tile) ==
    PygameTerrainEvents(tiles, game_map)
      \o PygameFootprintEvents(tiles, fps, has_tile)
      \o EnemyEvents(enemies, hide_enemies, ResolveKey(tiles, "enemy", "enemy"))
      \o CharacterEvents(characters, ResolveKey(tiles, "warlock", "warlock"))
      \o <<DrawEvent("player", pl.x, pl.y, ResolveKey(tiles, "", "player"))>>

\* ui.draw_map: the console.print calls, in order.
DrawMap(game_map, pl, enemies, characters, hide_enemies, fps, has_footprint_tile) ==
    AsciiTerrainEvents(game_map)
      \o AsciiFootprintEvents(fps, has_footprint_tile)
      \o EnemyEvents(enemies, hide_enemies, "enemy")
      \o CharacterEvents(characters, "warlock")
      \o <<DrawEvent("player", pl.x, pl.y, "player")>>

\* main.py lines 69-83: one frame of run_ascii.
DrawAsciiFrame ==
    /\ ~canvas.drawn
    /\ LET world_screen == screens[<<player.screen_x, player.screen_y>>]
       IN  canvas' = [drawn |-> TRUE, renderer |-> "ascii", tiles |-> canvas.tiles,
                      events |-> DrawMap(world_screen.terrain, player,
                                         world_screen.enemies, world_screen.characters,
                                         current_battle.active,
                                         GetFootprints(footprints,
                                                       <<player.screen_x, player.screen_y>>),
                                         "footprint" \in world_screen.tiles)]
    /\ UNCHANGED <<dims, worldVars, player, footprints, current_battle, inventory_open,
                   moves, view, visits, limit, gen, wcall, pc, build, catalog, hero,
                   time_elapsed, species, search, fight, inv>>

\* main.py lines 290-303: one frame of run_pygame.
DrawPygameFrame ==
    /\ ~canvas.drawn
    /\ LET world_screen == screens[<<player.screen_x, player.screen_y>>]
       IN  canvas' = [drawn |-> TRUE, renderer |-> "pygame", tiles |-> canvas.tiles,
                      events |-> PygameDrawMap(canvas.tiles, world_screen.terrain, player,
                                         world_screen.enemies, world_screen.characters,
                                         current_battle.active,
                                         GetFootprints(footprints,
                                                       <<player.screen_x, player.screen_y>>),
                                         "footprint" \in world_screen.tiles)]
    /\ UNCHANGED <<dims, worldVars, player, footprints, current_battle, inventory_open,
                   moves, view, visits, limit, gen, wcall, pc, build, catalog, hero,
                   time_elapsed, species, search, fight, inv>>

(* The game at the top of a loop iteration: a built world, the player on a  *)
(* walkable tile, with or without a trail; a battle is running exactly when *)
(* the player stands on a live enemy's tile.                                *)
InitDraw ==
    /\ dims = ViewDims
    /\ \E layout \in 0..MaxLayout : screens = SampleScreens(layout)
    /\ spawn_screen = <<WORLD_COLUMNS \div 2, WORLD_ROWS \div 2>>
    /\ spawn_position = FindSpawn(screens[spawn_screen].terrain)
    /\ \E s \in ScreenCoords, x \in 0..(MAP_WIDTH - 1), y \in 0..(MAP_HEIGHT - 1) :
          /\ Walkable(screens[s].terrain, x, y)
          /\ player = [screen_x |-> s[1], screen_y |-> s[2], x |-> x, y |-> y]
    /\ footprints \in {<<>>, SampleTrail(screens)}
    /\ current_battle =
         IF EnemyUnder(screens, player) # 0
         THEN [active |-> TRUE, exited |-> FALSE,
               enemy_screen |-> <<player.screen_x, player.screen_y>>,
               enemy |-> EnemyUnder(screens, player),
               previous_state |-> <<spawn_screen[1], spawn_screen[2],
                                    spawn_position[1], spawn_position[2]>>]
         ELSE NoBattle
    /\ inventory_open = FALSE
    /\ moves = 0
    /\ view = NoView
    /\ visits = <<>>
    /\ limit = None
    /\ gen = NoGen
    /\ wcall = NoCall
    /\ pc = "idle"
    /\ build = NoBuild
    /\ catalog = NoCatalog
    /\ hero = NoHero
    /\ \E tiles \in RendererTiles : canvas = [drawn |-> FALSE, tiles |-> tiles]
    /\ time_elapsed = 0
    /\ species = NoSpecies
    /\ search = NoSearch
    /\ fight = NoFight
    /\ inv = NoInv

NextDraw ==
    \/ DrawAsciiFrame
    \/ DrawPygameFrame

SpecDraw == InitDraw /\ [][NextDraw]_vars

\* The place of a layer in the frame.
LayerRank(layer) ==
    CASE layer \in {"ground", "overlay"} -> 1
      [] layer = "footprint" -> 2
      [] layer = "enemy" -> 3
      [] layer = "character" -> 4
      [] layer = "player" -> 5

\* The events of one layer of the drawn frame, as indices.
LayerEvents(layer) == {i \in 1..Len(canvas.events) : canvas.events[i].layer = layer}

\* C15: in a frame of either renderer the draw calls come in the order ground
\* tiles (each followed by its overlay, if any), footprints, enemies,
\* characters, player; the player is drawn once and last; every cell gets its
\* ground; the enemies drawn are the non-defeated ones, and none is drawn
\* while enemies are hidden.
C15_DrawOrder ==
    canvas.drawn =>
        LET ev == canvas.events
            here == <<player.screen_x, player.screen_y>>
            live == {i \in 1..Len(screens[here].enemies) : ~screens[here].enemies[i].defeated}
        IN  /\ \A i, j \in 1..Len(ev) :
                  i < j => LayerRank(ev[i].layer) <= LayerRank(ev[j].layer)
            /\ ev[Len(ev)].layer = "player"
            /\ Cardinality(LayerEvents("player")) = 1
            /\ <<ev[Len(ev)].x, ev[Len(ev)].y>> = <<player.x, player.y>>
            /\ \A c \in Cells : \E i \in LayerEvents("ground") : <<ev[i].x, ev[i].y>> = c
            /\ \A i \in LayerEvents("overlay") :
                  /\ i > 1
                  /\ ev[i - 1].layer = "ground"
                  /\ <<ev[i - 1].x, ev[i - 1].y>> = <<ev[i].x, ev[i].y>>
            /\ current_battle.active => LayerEvents("enemy") = {}
            /\ ~current_battle.active =>
                  /\ Cardinality(LayerEvents("enemy")) = Cardinality(live)
                  /\ \A n \in live : \E i \in LayerEvents("enemy") :
                        <<ev[i].x, ev[i].y>> = <<screens[here].enemies[n].x,
                                                 screens[here].enemies[n].y>>
            /\ Cardinality(LayerEvents("character")) = Len(screens[here].characters)
            /\ Cardinality(LayerEvents("footprint")) =
                  IF "footprint" \in screens[here].tiles
                  THEN Len(GetFootprints(footprints, here)) ELSE 0

\* A pygame frame with overlays, footprints, a drawn enemy, a skipped
\* defeated enemy and a character.
C15_Witness ==
    /\ canvas.drawn
    /\ canvas.renderer = "pygame"
    /\ LayerEvents("overlay") # {}
    /\ LayerEvents("footprint") # {}
    /\ LayerEvents("enemy") # {}
    /\ LayerEvents("character") # {}
    /\ \E i \in 1..Len(screens[<<player.screen_x, player.screen_y>>].enemies) :
          screens[<<player.screen_x, player.screen_y>>].enemies[i].defeated

-----------------------------------------------------------------------------
(* The game loop: how a battle ends *)

\* The step finishes a battle with `result`.
FinishedWith(result) ==
    /\ Len(hero'.outcomes) = Len(hero.outcomes) + 1
    /\ hero'.outcomes[Len(hero'.outcomes)] = result

-----------------------------------------------------------------------------
(* Shared by the specifications of single functions and objects below *)

\* The variables of the world, the player and the game loop.
baseVars == <<dims, worldVars, player, footprints, current_battle, inventory_open,
              moves, view, visits, limit, gen, wcall, pc, build, catalog, hero, canvas,
              time_elapsed>>

\* No world is built and no game runs.
IdleBase ==
    /\ dims = NoDims
    /\ screens = <<>>
    /\ spawn_screen = <<0, 0>>
    /\ spawn_position = <<0, 0>>
    /\ player = NoPlayer
    /\ footprints = <<>>
    /\ current_battle = NoBattle
    /\ inventory_open = FALSE
    /\ moves = 0
    /\ view = NoView
    /\ visits = <<>>
    /\ limit = None
    /\ gen = NoGen
    /\ wcall = NoCall
    /\ pc = "idle"
    /\ build = NoBuild
    /\ catalog = NoCatalog
    /\ hero = NoHero
    /\ canvas = NoCanvas
    /\ time_elapsed = 0

-----------------------------------------------------------------------------
(* engine/world.py: _enemy_id_for_biome *)

MaxSpecies == 3
MaxWeight == 2
RollSteps == 4

\* The ids of ENEMIES, in the order of the dict.
SpeciesIds == <<"wolf", "bear", "scorpion">>

\* The biomes a species declares a spawn weight for, or not.
DeclaredBiomes == {"summer", "winter"}

(* What an entry of ENEMIES says about spawning: no "spawn" dict at all, or *)
(* a weight per biome that is missing (None), 0 or MaxWeight.               *)
SpawnTables ==
    {[has_spawn |-> FALSE, biomes |-> [b \in DeclaredBiomes |-> None]]}
      \cup {[has_spawn |-> TRUE, biomes |-> w] :
              w \in [DeclaredBiomes -> {None, 0, MaxWeight}]}

\* Lines 258-266: float(biomes.get(biome, 0.0)) of one entry, 0 without a table.
SpawnWeight(entry, biome) ==
    IF ~entry.has_spawn \/ biome \notin DOMAIN entry.biomes THEN 0
    ELSE IF entry.biomes[biome] = None THEN 0
    ELSE entry.biomes[biome]

RECURSIVE SumWeights(_, _)
\* sum(weight for _, weight in weighted)
SumWeights(weighted, biome) ==
    IF weighted = <<>> THEN 0
    ELSE SpawnWeight(Head(weighted), biome) + SumWeights(Tail(weighted), biome)

\* A mutant of EnemyIdForBiome: species of weight 0 are kept in the wheel.
EnemyIdForBiomeKeepsZero(enemies, biome, k) ==
    LET weighted == SelectSeq(enemies, LAMBDA e : SpawnWeight(e, biome) >= 0)
        total == SumWeights(weighted, biome)
        hits == {i \in 1..Len(weighted) :
                   k * total <= RollSteps * SumWeights(SubSeq(weighted, 1, i), biome)}
    IN  IF weighted = <<>>
        THEN IF enemies = <<>> THEN "StopIteration" ELSE enemies[1].id
        ELSE IF hits = {} THEN weighted[Len(weighted)].id
        ELSE weighted[CHOOSE i \in hits : \A j \in hits : i <= j].id

(* _enemy_id_for_biome with random.random() = k / RollSteps: the species of *)
(* positive weight form the wheel; the first whose cumulative weight        *)
(* reaches roll = random() * total is returned, the last one if none does;  *)
(* with an empty wheel the first key of ENEMIES, and next() raises          *)
(* StopIteration when ENEMIES is empty.                                     *)
EnemyIdForBiome(enemies, biome, k) ==
    LET weighted == SelectSeq(enemies, LAMBDA e : SpawnWeight(e, biome) > 0)
        total == SumWeights(weighted, biome)
        hits == {i \in 1..Len(weighted) :
                   k * total <= RollSteps * SumWeights(SubSeq(weighted, 1, i), biome)}
    IN  IF weighted = <<>>
        THEN IF enemies = <<>> THEN "StopIteration" ELSE enemies[1].id
        ELSE IF hits = {} THEN weighted[Len(weighted)].id
        ELSE weighted[CHOOSE i \in hits : \A j \in hits : i <= j].id

\* ENEMIES as data/enemies.py loads it: up to MaxSpecies species.
InitSpecies ==
    /\ IdleBase
    /\ \E n \in 0..MaxSpecies : \E tables \in [1..n -> SpawnTables] :
          species = [called |-> FALSE,
                     ENEMIES |-> [i \in 1..n |->
                                     [id |-> SpeciesIds[i],
                                      has_spawn |-> tables[i].has_spawn,
                                      biomes |-> tables[i].biomes]]]
    /\ search = NoSearch
    /\ fight = NoFight
    /\ inv = NoInv

\* One call _enemy_id_for_biome(biome).
CallEnemyIdForBiome(biome, k) ==
    /\ ~species.called
    /\ species' = [called |-> TRUE, ENEMIES |-> species.ENEMIES, biome |-> biome,
                   result |-> EnemyIdForBiome(species.ENEMIES, biome, k)]
    /\ UNCHANGED <<baseVars, search, fight, inv>>

NextSpecies ==
    \E biome \in CatalogBiomes, k \in 0..(RollSteps - 1) : CallEnemyIdForBiome(biome, k)

SpecSpecies == InitSpecies /\ [][NextSpecies]_vars

\* The species with a positive declared weight for the biome of the call.
Eligible ==
    {species.ENEMIES[i].id : i \in {j \in 1..Len(species.ENEMIES) :
        /\ species.ENEMIES[j].has_spawn
        /\ species.biome \in DeclaredBiomes
        /\ species.ENEMIES[j].biomes[species.biome] # None
        /\ species.ENEMIES[j].biomes[species.biome] > 0}}

\* C21: _enemy_id_for_biome returns a species whose declared weight for the
\* biome is positive whenever there is one, and the first defined species
\* when there is none.
C21_EligibleSpecies ==
    species.called =>
        /\ Eligible # {} => species.result \in Eligible
        /\ (Eligible = {} /\ species.ENEMIES # <<>>) =>
              species.result = species.ENEMIES[1].id

\* The first species has weight 0 for the biome, a later one a positive
\* weight, and the later one is returned.
C21_Witness ==
    /\ species.called
    /\ Len(species.ENEMIES) = 3
    /\ species.ENEMIES[1].has_spawn
    /\ species.ENEMIES[1].biomes["winter"] = 0
    /\ species.biome = "winter"
    /\ Cardinality(Eligible) = 2
    /\ species.result = "scorpion"

-----------------------------------------------------------------------------
(* engine/world.py: the loop of find_random_walkable *)

\* The 500 of `while attempts < 500`, scaled.
AttemptLimit == 3
SearchMapW == 2
SearchMapH == 2

\* A mutant of SearchIteration: a draw of an excluded tile is not counted.
SearchIterationExcludedFree(srch, x, y) ==
    IF <<x, y>> \in srch.exclude
    THEN [srch EXCEPT !.draws = @ + 1]
    ELSE IF Walkable(srch.game_map, x, y)
    THEN [srch EXCEPT !.draws = @ + 1, !.pc = "done", !.result = <<x, y>>]
    ELSE [srch EXCEPT !.draws = @ + 1, !.attempts = @ + 1]

(* Lines 241-249, one pass of the loop body with the draw (x, y): an        *)
(* excluded tile and a non-walkable tile each add one to attempts, a        *)
(* walkable tile that is not excluded is returned.                          *)
SearchIteration(srch, x, y) ==
    IF <<x, y>> \in srch.exclude
    THEN [srch EXCEPT !.draws = @ + 1, !.attempts = @ + 1]
    ELSE IF Walkable(srch.game_map, x, y)
    THEN [srch EXCEPT !.draws = @ + 1, !.pc = "done", !.result = <<x, y>>]
    ELSE [srch EXCEPT !.draws = @ + 1, !.attempts = @ + 1]

\* find_random_walkable(game_map, exclude) is entered: any map of ground
\* and trees, any exclusion set.
InitSearch ==
    /\ IdleBase
    /\ species = NoSpecies
    /\ \E game_map \in [0..(SearchMapH - 1) ->
                          [0..(SearchMapW - 1) -> {"summer_ground", "summer_tree"}]],
          exclude \in SUBSET ((0..(SearchMapW - 1)) \X (0..(SearchMapH - 1))) :
          search = [pc |-> "loop", game_map |-> game_map, exclude |-> exclude,
                    attempts |-> 0, draws |-> 0, result |-> <<0, 0>>, fallback |-> FALSE]
    /\ fight = NoFight
    /\ inv = NoInv

\* Lines 240-249: the loop test holds and one draw is made.
SearchDraw(x, y) ==
    /\ search.pc = "loop"
    /\ search.attempts < AttemptLimit
    /\ search' = SearchIteration(search, x, y)
    /\ UNCHANGED <<baseVars, species, fight, inv>>

\* Line 250: the loop test fails and (0, 0) is returned.
SearchExhausted ==
    /\ search.pc = "loop"
    /\ ~(search.attempts < AttemptLimit)
    /\ search' = [search EXCEPT !.pc = "done", !.result = <<0, 0>>, !.fallback = TRUE]
    /\ UNCHANGED <<baseVars, species, fight, inv>>

NextSearch ==
    \/ \E x \in 0..(SearchMapW - 1), y \in 0..(SearchMapH - 1) : SearchDraw(x, y)
    \/ SearchExhausted

\* The call keeps running until it returns.
SpecSearch == InitSearch /\ [][NextSearch]_vars /\ WF_vars(NextSearch)

\* C22: find_random_walkable makes at most AttemptLimit draws and returns;
\* what it returns is a walkable tile outside the exclusion set, or (0, 0)
\* after AttemptLimit rejected draws, the draws of excluded tiles among them.
C22_SearchTerminates ==
    /\ [](/\ search.draws <= AttemptLimit
          /\ search.pc = "done" =>
                IF search.fallback
                THEN /\ search.result = <<0, 0>>
                     /\ search.draws = AttemptLimit
                     /\ search.attempts = AttemptLimit
                ELSE /\ search.result \notin search.exclude
                     /\ TileWalkable(search.game_map[search.result[2]][search.result[1]]))
    /\ <>(search.pc = "done")

\* The search gave up on a map that has a walkable tile outside the
\* exclusion set, with (0, 0) itself excluded.
C22_Witness ==
    /\ search.pc = "done"
    /\ search.fallback
    /\ <<0, 0>> \in search.exclude
    /\ \E x \in 0..(SearchMapW - 1), y \in 0..(SearchMapH - 1) :
          <<x, y>> \notin search.exclude /\ Walkable(search.game_map, x, y)

-----------------------------------------------------------------------------
(* engine/world.py: the placements of build_world on every screen of the    *)
(* grid, over any terrain the screen loop may hold, a terrain with no       *)
(* walkable tile included.                                                  *)

SoftCols == 1
SoftRows == 2
SoftMapW == 2
SoftMapH == 2

SoftDims == [cols |-> SoftCols, rows |-> SoftRows,
             map_width |-> SoftMapW, map_height |-> SoftMapH]

\* A mutant of EnemyPlacement: the enemy is appended without the test.
EnemyPlacementUnchecked(terrain, e, sx, sy) ==
    <<Enemy(e[1], e[2], sx, sy, FALSE)>>

\* Lines 352-371: the enemy is appended only when terrain[ey][ex] is walkable.
EnemyPlacement(terrain, e, sx, sy) ==
    IF Walkable(terrain, e[1], e[2]) THEN <<Enemy(e[1], e[2], sx, sy, FALSE)>> ELSE <<>>

\* Lines 415-423: an enemy on the spawn tile moves to the drawn tile when
\* that tile is walkable and is flagged defeated otherwise.
Relocate(terrain, enemy, spawn, new) ==
    IF <<enemy.x, enemy.y>> # spawn THEN enemy
    ELSE IF Walkable(terrain, new[1], new[2])
    THEN [enemy EXCEPT !.x = new[1], !.y = new[2]]
    ELSE [enemy EXCEPT !.defeated = TRUE]

\* The screens in the order of the loops of lines 290-291.
SoftOrder == RowMajor(WORLD_COLUMNS, WORLD_ROWS)

\* build_world is entered.
InitSoft ==
    /\ dims = SoftDims
    /\ screens = <<>>
    /\ spawn_screen = <<0, 0>>
    /\ spawn_position = <<0, 0>>
    /\ player = NoPlayer
    /\ footprints = <<>>
    /\ current_battle = NoBattle
    /\ inventory_open = FALSE
    /\ moves = 0
    /\ view = NoView
    /\ visits = <<>>
    /\ limit = None
    /\ gen = NoGen
    /\ wcall = NoCall
    /\ pc = "screens"
    /\ build = [drawn |-> {}, warlock_spawns |-> {}]
    /\ catalog = NoCatalog
    /\ hero = NoHero
    /\ canvas = NoCanvas
    /\ time_elapsed = 0
    /\ species = NoSpecies
    /\ search = NoSearch
    /\ fight = NoFight
    /\ inv = NoInv

softFrame == <<dims, player, footprints, current_battle, inventory_open, moves, view,
               visits, limit, gen, wcall, catalog, hero, canvas, time_elapsed,
               species, search, fight, inv>>

\* Lines 290-380, one pass of the screen loop: the terrain of the next screen,
\* the draw of find_random_walkable(terrain) and the screen's enemy list.
SoftScreen ==
    /\ pc = "screens"
    /\ \E coords \in {SoftOrder[Len(screens) + 1]} :
       \E terrain \in [0..(MAP_HEIGHT - 1) ->
                          [0..(MAP_WIDTH - 1) -> {"summer_ground", "summer_tree"}]] :
       \E e \in FindRandomWalkable(terrain, {}) :
          /\ screens' = Append(screens,
                               [coords |-> coords,
                                terrain |-> terrain,
                                enemies |-> EnemyPlacement(terrain, e, coords[1], coords[2]),
                                characters |-> <<>>])
          /\ build' = [build EXCEPT !.drawn = @ \cup {e}]
    /\ pc' = IF Len(screens) + 1 = Len(SoftOrder) THEN "warlocks" ELSE "screens"
    /\ UNCHANGED <<softFrame, spawn_screen, spawn_position>>

\* Lines 382-407, one pass of the loop over warlock_spawns, the first
\* min(5, number of screens) screens of the shuffle: the draw avoids the
\* occupied tiles, and a non-walkable result skips the character.
SoftWarlock(i) ==
    /\ pc = "warlocks"
    /\ Cardinality(build.warlock_spawns) < Min(5, Len(screens))
    /\ i \notin build.warlock_spawns
    /\ LET screen == screens[i]
           occupied == {<<screen.enemies[k].x, screen.enemies[k].y>> :
                           k \in 1..Len(screen.enemies)}
       IN  \E w \in FindRandomWalkable(screen.terrain, occupied) :
              /\ screens' = [screens EXCEPT ![i].characters =
                                IF ~Walkable(screen.terrain, w[1], w[2]) THEN @
                                ELSE Append(@, Character(w[1], w[2],
                                                         screen.coords[1], screen.coords[2]))]
              /\ build' = [build EXCEPT !.drawn = @ \cup {w},
                                        !.warlock_spawns = @ \cup {i}]
    /\ UNCHANGED <<softFrame, pc, spawn_screen, spawn_position>>

\* Lines 409-429: the spawn tile, the relocation of the spawn screen's
\* enemies that stand on it, and the return of the World.
SoftSpawn ==
    /\ pc = "warlocks"
    /\ Cardinality(build.warlock_spawns) = Min(5, Len(screens))
    /\ \E i \in {k \in 1..Len(screens) :
                    screens[k].coords = <<WORLD_COLUMNS \div 2, WORLD_ROWS \div 2>>} :
       \E spawn \in {FindSpawn(screens[i].terrain)} :
       \E new \in FindRandomWalkable(screens[i].terrain, {spawn}) :
          /\ screens' = [screens EXCEPT ![i].enemies =
                            [k \in 1..Len(@) |-> Relocate(screens[i].terrain, @[k], spawn, new)]]
          /\ build' = [build EXCEPT !.drawn = @ \cup {spawn, new}]
          /\ spawn_screen' = screens[i].coords
          /\ spawn_position' = spawn
    /\ pc' = "returned"
    /\ UNCHANGED softFrame

NextSoft ==
    \/ SoftScreen
    \/ \E i \in 1..(SoftCols * SoftRows) : SoftWarlock(i)
    \/ SoftSpawn

\* The call keeps running until it returns.
SpecSoft == InitSoft /\ [][NextSoft]_vars /\ WF_vars(NextSoft)

\* What exhaustion may leave on a returned screen: no enemy or no character
\* only where the fallback tile (0, 0) is not walkable, a defeated enemy only
\* on the spawn tile of such a screen, everything else on walkable tiles.
SoftScreenOk(screen) ==
    /\ Len(screen.enemies) <= 1
    /\ Len(screen.characters) <= 1
    /\ screen.enemies = <<>> => ~Walkable(screen.terrain, 0, 0)
    /\ screen.characters = <<>> => ~Walkable(screen.terrain, 0, 0)
    /\ \A k \in 1..Len(screen.characters) :
          Walkable(screen.terrain, screen.characters[k].x, screen.characters[k].y)
    /\ \A k \in 1..Len(screen.enemies) :
          /\ Walkable(screen.terrain, screen.enemies[k].x, screen.enemies[k].y)
          /\ screen.enemies[k].defeated =>
                /\ screen.coords = spawn_screen
                /\ <<screen.enemies[k].x, screen.enemies[k].y>> = spawn_position
                /\ ~Walkable(screen.terrain, 0, 0)

-----------------------------------------------------------------------------
(* engine/world.py: the bands of _biome_weights_for_height *)

\* The bands as one call shows them.
BandsOfCall(call) ==
    /\ DOMAIN call.out = BIOMES
    /\ call.y = RInt(0) => \A b \in BIOMES : RLeq(call.out[b], call.out["winter"])
    /\ call.y = RInt(1) => \A b \in BIOMES : RLeq(call.out[b], call.out["drought"])
    /\ \E remainder \in {RSub(RSub(RInt(1), call.out["winter"]), call.out["drought"])} :
          RLeq(RInt(0), remainder) => call.out["summer"] = remainder

\* C24: for every transition width winter has the largest weight at y = 0 and
\* drought at y = 1, the summer weight is the remainder 1 - winter - drought
\* when that is not negative, and of two calls with the same width the one
\* with the larger y has no more winter and no less drought.
C24_BiomeBands ==
    /\ [](wcall.called => BandsOfCall(wcall))
    /\ [][(/\ wcall.called
           /\ wcall'.span = wcall.span
           /\ RLeq(wcall.y, wcall'.y))
          => /\ RLeq(wcall'.out["winter"], wcall.out["winter"])
             /\ RLeq(wcall.out["drought"], wcall'.out["drought"])]_vars

\* A call at the top row with a transition so wide that winter, still the
\* largest, shares the row with summer and drought.
C24_Witness ==
    /\ wcall.called
    /\ wcall.y = RInt(0)
    /\ RLess(RInt(0), wcall.out["drought"])
    /\ RLess(RInt(0), wcall.out["summer"])
    /\ BandsOfCall(wcall)

-----------------------------------------------------------------------------
(* engine/inventory.py: Inventory, seeded by Player._seed_starting_items *)

\* _ACTIVE_SLOT_ORDER
ACTIVE_SLOT_ORDER == <<"upper", "boots", "weapon_main", "weapon_off">>

\* _WEAPON_SLOTS
WEAPON_SLOTS == <<"weapon_main", "weapon_off">>

\* Inventory.passive_columns
PASSIVE_COLUMNS == 4

\* Inventory.passive_rows ranges over 1..MaxPassiveRows (3 by default).
MaxPassiveRows == 3

\* InventoryItem; the icon plays no part in the transfers.
InventoryItem(name, slot_type, two_handed) ==
    [name |-> name, slot_type |-> slot_type, two_handed |-> two_handed]

\* None in a slot.
NoItem == InventoryItem("", "", FALSE)

\* Player._seed_starting_items: the cloak, the boots, the dagger and the
\* two-handed halberd.
Starters ==
    <<InventoryItem("cloak", "upper", FALSE), InventoryItem("boots", "boots", FALSE),
      InventoryItem("dagger", "weapon", FALSE), InventoryItem("halberd", "weapon", TRUE)>>

\* Inventory() after __post_init__ and _seed_starting_items.
SeededInventory(passive_rows) ==
    [passive_rows |-> passive_rows,
     passive_slots |-> [i \in 1..(PASSIVE_COLUMNS * passive_rows) |->
                           IF i <= Len(Starters) THEN Starters[i] ELSE NoItem],
     active_slots |-> [slot \in Range(ACTIVE_SLOT_ORDER) |-> NoItem],
     cursor_index |-> 0]

\* Inventory.total_slots
TotalSlots(iv) == Len(ACTIVE_SLOT_ORDER) + PASSIVE_COLUMNS * iv.passive_rows

\* Inventory.move_cursor
MoveCursor(iv, dx, dy) ==
    IF dx = 0 /\ dy = 0 THEN iv
    ELSE LET x == iv.cursor_index % PASSIVE_COLUMNS
             y == iv.cursor_index \div PASSIVE_COLUMNS
             new_x == Max(0, Min(PASSIVE_COLUMNS - 1, x + dx))
             new_y == Max(0, Min((1 + iv.passive_rows) - 1, y + dy))
         IN  [iv EXCEPT !.cursor_index =
                 Min(TotalSlots(iv) - 1, new_y * PASSIVE_COLUMNS + new_x)]

\* Inventory._free_passive_slots
FreePassiveSlots(passive_slots) ==
    Cardinality({i \in 1..Len(passive_slots) : passive_slots[i] = NoItem})

\* A mutant of StoreInPassive: the item goes into the first slot, free or not.
StoreInPassiveFirstSlot(passive_slots, item) ==
    [passive_slots EXCEPT ![1] = item]

\* Inventory._store_in_passive: the first free slot takes the item.
StoreInPassive(passive_slots, item) ==
    LET free == {i \in 1..Len(passive_slots) : passive_slots[i] = NoItem}
    IN  IF free = {} THEN passive_slots
        ELSE [passive_slots EXCEPT ![CHOOSE i \in free : \A j \in free : i <= j] = item]

\* Inventory._collect_weapon_items(exclude=item)
CollectWeaponItems(active_slots, exclude) ==
    LET main == active_slots["weapon_main"]
        off == active_slots["weapon_off"]
        first == IF main = NoItem \/ main = exclude THEN <<>> ELSE <<main>>
    IN  IF off = NoItem \/ off = exclude \/ off \in Range(first)
        THEN first ELSE Append(first, off)

\* Inventory._clear_weapon_item
ClearWeaponItem(active_slots, item) ==
    [slot \in DOMAIN active_slots |->
        IF slot \in Range(WEAPON_SLOTS) /\ active_slots[slot] = item
        THEN NoItem ELSE active_slots[slot]]

\* The loop `for existing in equipped_items` of _equip_weapon: each weapon
\* leaves its slots and is stored in the backpack.
RECURSIVE UnequipWeapons(_, _)
UnequipWeapons(iv, equipped_items) ==
    IF equipped_items = <<>> THEN iv
    ELSE UnequipWeapons(
            [iv EXCEPT !.active_slots = ClearWeaponItem(@, Head(equipped_items)),
                       !.passive_slots = StoreInPassive(@, Head(equipped_items))],
            Tail(equipped_items))

\* Inventory._equip_to_single_slot: success and the inventory afterwards.
EquipToSingleSlot(iv, slot_name, item) ==
    LET current == iv.active_slots[slot_name]
    IN  IF current = item THEN [success |-> FALSE, inventory |-> iv]
        ELSE IF current # NoItem
        THEN IF FreePassiveSlots(iv.passive_slots) = 0
             THEN [success |-> FALSE, inventory |-> iv]
             ELSE [success |-> TRUE,
                   inventory |-> [iv EXCEPT !.passive_slots = StoreInPassive(@, current),
                                            !.active_slots[slot_name] = item]]
        ELSE [success |-> TRUE, inventory |-> [iv EXCEPT !.active_slots[slot_name] = item]]

\* Inventory._equip_weapon: success and the inventory afterwards.
EquipWeapon(iv, item) ==
    LET equipped_items == CollectWeaponItems(iv.active_slots, item)
        free_slots == FreePassiveSlots(iv.passive_slots)
        two_handed_equipped ==
            \E k \in 1..Len(equipped_items) : equipped_items[k].two_handed
        freed == IF two_handed_equipped THEN UnequipWeapons(iv, equipped_items) ELSE iv
        empty == {k \in 1..Len(WEAPON_SLOTS) : freed.active_slots[WEAPON_SLOTS[k]] = NoItem}
        off_item == freed.active_slots["weapon_off"]
        main_item == freed.active_slots["weapon_main"]
    IN  IF item.two_handed
        THEN IF Len(equipped_items) > free_slots
             THEN [success |-> FALSE, inventory |-> iv]
             ELSE [success |-> TRUE,
                   inventory |-> [UnequipWeapons(iv, equipped_items) EXCEPT
                                     !.active_slots["weapon_main"] = item,
                                     !.active_slots["weapon_off"] = item]]
        ELSE IF two_handed_equipped /\ Len(equipped_items) > free_slots
        THEN [success |-> FALSE, inventory |-> iv]
        ELSE IF \E k \in 1..Len(WEAPON_SLOTS) : freed.active_slots[WEAPON_SLOTS[k]] = item
        THEN [success |-> FALSE, inventory |-> freed]
        ELSE IF empty # {}
        THEN [success |-> TRUE,
              inventory |-> [freed EXCEPT
                  !.active_slots[WEAPON_SLOTS[CHOOSE k \in empty : \A j \in empty : k <= j]] = item]]
        ELSE IF free_slots = 0
        THEN [success |-> FALSE, inventory |-> freed]
        ELSE IF off_item # NoItem
        THEN [success |-> TRUE,
              inventory |-> [freed EXCEPT !.passive_slots = StoreInPassive(@, off_item),
                                          !.active_slots["weapon_off"] = item]]
        ELSE [success |-> TRUE,
              inventory |-> [freed EXCEPT
                  !.passive_slots = IF main_item # NoItem
                                    THEN StoreInPassive(@, main_item) ELSE @,
                  !.active_slots["weapon_main"] = item]]

\* A mutant of TransferActiveToPassive: only the selected slot is cleared.
TransferActiveToPassiveOneSlot(iv) ==
    LET slot_name == ACTIVE_SLOT_ORDER[iv.cursor_index + 1]
        item == iv.active_slots[slot_name]
    IN  IF item = NoItem \/ FreePassiveSlots(iv.passive_slots) = 0
        THEN [success |-> FALSE, inventory |-> iv]
        ELSE [success |-> TRUE,
              inventory |-> [iv EXCEPT !.active_slots[slot_name] = NoItem,
                                       !.passive_slots = StoreInPassive(@, item)]]

\* Inventory._transfer_active_to_passive
TransferActiveToPassive(iv) ==
    LET slot_name == ACTIVE_SLOT_ORDER[iv.cursor_index + 1]
        item == iv.active_slots[slot_name]
    IN  IF item = NoItem \/ FreePassiveSlots(iv.passive_slots) = 0
        THEN [success |-> FALSE, inventory |-> iv]
        ELSE [success |-> TRUE,
              inventory |-> [iv EXCEPT
                  !.active_slots = IF slot_name \in Range(WEAPON_SLOTS) /\ item.two_handed
                                   THEN ClearWeaponItem(@, item)
                                   ELSE [@ EXCEPT ![slot_name] = NoItem],
                  !.passive_slots = StoreInPassive(@, item)]]

\* Inventory._transfer_passive_to_active
TransferPassiveToActive(iv) ==
    LET passive_index == iv.cursor_index - Len(ACTIVE_SLOT_ORDER)
        item == iv.passive_slots[passive_index + 1]
        equip == CASE item.slot_type = "upper" -> EquipToSingleSlot(iv, "upper", item)
                   [] item.slot_type = "boots" -> EquipToSingleSlot(iv, "boots", item)
                   [] item.slot_type = "weapon" -> EquipWeapon(iv, item)
                   [] OTHER -> [success |-> FALSE, inventory |-> iv]
    IN  IF item = NoItem THEN [success |-> FALSE, inventory |-> iv]
        ELSE IF equip.success
        THEN [success |-> TRUE,
              inventory |-> [equip.inventory EXCEPT !.passive_slots[passive_index + 1] = NoItem]]
        ELSE equip

\* Inventory.transfer_selected
TransferSelected(iv) ==
    IF 0 <= iv.cursor_index /\ iv.cursor_index < Len(ACTIVE_SLOT_ORDER)
    THEN TransferActiveToPassive(iv)
    ELSE TransferPassiveToActive(iv)

\* Player.__init__ lines 35-36: the inventory of a new player.
InitInv ==
    /\ IdleBase
    /\ species = NoSpecies
    /\ search = NoSearch
    /\ fight = NoFight
    /\ \E passive_rows \in 1..MaxPassiveRows :
          inv = [made |-> TRUE, inventory |-> SeededInventory(passive_rows),
                 call |-> "__init__", returned |-> "None"]

\* One call move_cursor(dx, dy).
CallMoveCursor(dx, dy) ==
    /\ inv' = [inv EXCEPT !.inventory = MoveCursor(@, dx, dy),
                          !.call = "move_cursor", !.returned = "None"]
    /\ UNCHANGED <<baseVars, species, search, fight>>

\* One call transfer_selected().
CallTransferSelected ==
    /\ \E transfer \in {TransferSelected(inv.inventory)} :
          inv' = [inv EXCEPT !.inventory = transfer.inventory,
                             !.call = "transfer_selected",
                             !.returned = IF transfer.success THEN "True" ELSE "False"]
    /\ UNCHANGED <<baseVars, species, search, fight>>

NextInv ==
    \/ \E dx \in -1..1, dy \in -1..1 : CallMoveCursor(dx, dy)
    \/ CallTransferSelected

SpecInv == InitInv /\ [][NextInv]_vars

\* How many active slots and how many passive slots hold the item.
ActiveCount(iv, item) ==
    Cardinality({slot \in DOMAIN iv.active_slots : iv.active_slots[slot] = item})

PassiveCount(iv, item) ==
    Cardinality({i \in 1..Len(iv.passive_slots) : iv.passive_slots[i] = item})

\* Every starting item is held once, or, a two-handed weapon, in both weapon
\* slots and nowhere else; no slot holds anything but a starting item.
ItemsConserved(iv) ==
    /\ \A k \in 1..Len(Starters) :
          \/ ActiveCount(iv, Starters[k]) + PassiveCount(iv, Starters[k]) = 1
          \/ /\ Starters[k].two_handed
             /\ PassiveCount(iv, Starters[k]) = 0
             /\ ActiveCount(iv, Starters[k]) = 2
             /\ \A j \in 1..Len(WEAPON_SLOTS) : iv.active_slots[WEAPON_SLOTS[j]] = Starters[k]
    /\ \A slot \in DOMAIN iv.active_slots : iv.active_slots[slot] \in Range(Starters) \cup {NoItem}
    /\ \A i \in 1..Len(iv.passive_slots) : iv.passive_slots[i] \in Range(Starters) \cup {NoItem}

\* C29: after any sequence of move_cursor and transfer_selected calls the
\* items held across the active and passive slots are those the inventory
\* started with, none lost and none doubled except a two-handed weapon filling
\* both weapon slots; a transfer_selected call that returns False leaves the
\* active and the passive slots as they were.
C29_ItemConservation ==
    /\ [](inv.made => ItemsConserved(inv.inventory))
    /\ [][(inv'.call = "transfer_selected" /\ inv'.returned = "False")
             => /\ inv'.inventory.active_slots = inv.inventory.active_slots
                /\ inv'.inventory.passive_slots = inv.inventory.passive_slots]_vars

\* The halberd fills both weapon slots, the cloak is worn, the dagger lies in
\* the backpack, and the last transfer was refused.
C29_Witness ==
    /\ inv.made
    /\ inv.call = "transfer_selected"
    /\ inv.returned = "False"
    /\ inv.inventory.active_slots["weapon_main"] = Starters[4]
    /\ inv.inventory.active_slots["weapon_off"] = Starters[4]
    /\ inv.inventory.active_slots["upper"] = Starters[1]
    /\ PassiveCount(inv.inventory, Starters[3]) = 1

\* C30: after any sequence of calls a two-handed weapon in a weapon slot
\* fills both weapon slots, a one-handed item is never in both, the upper and
\* boots slots hold only items of their own slot type, and the cursor index
\* is within [0, total_slots).
C30_TwoHanded ==
    inv.made =>
       LET iv == inv.inventory
           main == iv.active_slots["weapon_main"]
           off == iv.active_slots["weapon_off"]
       IN  /\ main.two_handed => off = main
           /\ off.two_handed => main = off
           /\ (main # NoItem /\ ~main.two_handed) => off # main
           /\ \A slot \in {"upper", "boots"} :
                 iv.active_slots[slot] = NoItem \/ iv.active_slots[slot].slot_type = slot
           /\ 0 <= iv.cursor_index
           /\ iv.cursor_index < TotalSlots(iv)

\* The halberd fills both weapon slots and the cursor is on the last slot.
C30_Witness ==
    /\ inv.made
    /\ inv.inventory.active_slots["weapon_main"] = Starters[4]
    /\ inv.inventory.active_slots["weapon_off"] = Starters[4]
    /\ inv.inventory.cursor_index = TotalSlots(inv.inventory) - 1

-----------------------------------------------------------------------------
(* engine/battle.py: one Battle object and the calls made on it *)

\* Stats range over 0..MaxStat.
MaxStat == 3

\* run_away: random.randint(1, 12) and the total a flight needs.
RollMax == 12
RollTarget == 6

\* Battle.can_run: player.dexterity or player.intelligence reaches
\* (enemy.dexterity + enemy.intelligence) / 2.
CanRun(f) ==
    \/ 2 * f.dexterity >= f.enemy_dexterity + f.enemy_intelligence
    \/ 2 * f.intelligence >= f.enemy_dexterity + f.enemy_intelligence

\* Battle.enemy_attack with the draw damage.
EnemyAttack(f, damage) ==
    IF f.enemy_hp <= 0 THEN f
    ELSE IF Max(0, f.player_hp - damage) <= 0
    THEN [f EXCEPT !.player_hp = Max(0, @ - damage), !.finished = TRUE, !.result = "defeat"]
    ELSE [f EXCEPT !.player_hp = Max(0, @ - damage)]

\* A mutant of RunAway: a failed roll does not lock further attempts.
RunAwayNoLock(f, roll, enemy_damage) ==
    IF f.locked
    THEN [f EXCEPT !.call = "run_away", !.returned = "False", !.rolled = FALSE,
                   !.enemy_attacks = 0]
    ELSE IF ~f.has_dexterity
    THEN [f EXCEPT !.call = "run_away", !.returned = "AttributeError", !.rolled = FALSE,
                   !.enemy_attacks = 0]
    ELSE IF ~CanRun(f)
    THEN [f EXCEPT !.call = "run_away", !.returned = "False", !.rolled = FALSE,
                   !.enemy_attacks = 0]
    ELSE IF roll + (f.dexterity \div 3) >= RollTarget
    THEN [f EXCEPT !.call = "run_away", !.returned = "True", !.rolled = TRUE,
                   !.enemy_attacks = 0, !.finished = TRUE, !.result = "run"]
    ELSE [EnemyAttack(f, enemy_damage) EXCEPT
                   !.call = "run_away", !.returned = "False", !.rolled = TRUE,
                   !.enemy_attacks = 1]

(* Battle.run_away with the draws roll and enemy_damage. A locked attempt   *)
(* returns False; otherwise can_run reads player.dexterity, which raises    *)
(* AttributeError for a player without that attribute; a roll that falls    *)
(* short locks further attempts and calls enemy_attack once.                *)
RunAway(f, roll, enemy_damage) ==
    IF f.locked
    THEN [f EXCEPT !.call = "run_away", !.returned = "False", !.rolled = FALSE,
                   !.enemy_attacks = 0]
    ELSE IF ~f.has_dexterity
    THEN [f EXCEPT !.call = "run_away", !.returned = "AttributeError", !.rolled = FALSE,
                   !.enemy_attacks = 0]
    ELSE IF ~CanRun(f)
    THEN [f EXCEPT !.call = "run_away", !.returned = "False", !.rolled = FALSE,
                   !.enemy_attacks = 0]
    ELSE IF roll + (f.dexterity \div 3) >= RollTarget
    THEN [f EXCEPT !.call = "run_away", !.returned = "True", !.rolled = TRUE,
                   !.enemy_attacks = 0, !.finished = TRUE, !.result = "run"]
    ELSE [EnemyAttack([f EXCEPT !.locked = TRUE], enemy_damage) EXCEPT
                   !.call = "run_away", !.returned = "False", !.rolled = TRUE,
                   !.enemy_attacks = 1]

(* Battle(player, enemy, previous_state) for a player at full hp with 100   *)
(* talents and an enemy at max_hp. The player is the Player of              *)
(* engine/player.py, which has no dexterity attribute, or an object that    *)
(* has one.                                                                 *)
InitBattle ==
    /\ IdleBase
    /\ species = NoSpecies
    /\ search = NoSearch
    /\ inv = NoInv
    /\ \E has_dexterity \in BOOLEAN, player_first \in BOOLEAN,
          dexterity \in 0..MaxStat, intelligence \in 0..MaxStat,
          enemy_dexterity \in 0..MaxStat, enemy_intelligence \in 0..MaxStat :
          /\ ~has_dexterity => dexterity = 0
          /\ fight = [made |-> TRUE, finished |-> FALSE, result |-> "None",
                      locked |-> FALSE, enemy_hp |-> EnemyMaxHp, defeated |-> FALSE,
                      player_hp |-> HeroMaxHp, talents |-> StartTalents, rewards |-> 0,
                      player_first |-> player_first, has_dexterity |-> has_dexterity,
                      dexterity |-> dexterity, intelligence |-> intelligence,
                      enemy_dexterity |-> enemy_dexterity,
                      enemy_intelligence |-> enemy_intelligence,
                      call |-> "__init__", returned |-> "None", rolled |-> FALSE,
                      enemy_attacks |-> 0]

\* One call attack_round() with the draws player_damage and enemy_damage.
CallAttackRound(player_damage, enemy_damage) ==
    /\ fight.made
    /\ \E round \in {AttackRound(fight.enemy_hp, fight.player_hp, fight.player_first,
                                 player_damage, enemy_damage)} :
          fight' =
             IF fight.finished
             THEN [fight EXCEPT !.call = "attack_round", !.returned = "None",
                                !.rolled = FALSE, !.enemy_attacks = 0]
             ELSE [fight EXCEPT
                      !.call = "attack_round", !.returned = "None", !.rolled = FALSE,
                      !.enemy_attacks = IF round.player_hp # fight.player_hp THEN 1 ELSE 0,
                      !.enemy_hp = round.enemy_hp,
                      !.player_hp = round.player_hp,
                      !.finished = round.result # "none",
                      !.result = IF round.result = "none" THEN "None" ELSE round.result,
                      !.defeated = IF round.result = "victory" THEN TRUE ELSE @,
                      !.talents = IF round.result = "victory" THEN @ + RewardTalents ELSE @,
                      !.rewards = IF round.result = "victory" THEN @ + 1 ELSE @]
    /\ UNCHANGED <<baseVars, species, search, inv>>

\* One call run_away() with the draws roll and enemy_damage.
CallRunAway(roll, enemy_damage) ==
    /\ fight.made
    /\ fight' = RunAway(fight, roll, enemy_damage)
    /\ UNCHANGED <<baseVars, species, search, inv>>

\* One call bribe().
CallBribe ==
    /\ fight.made
    /\ fight' =
          IF fight.talents < BribeCost(fight.talents)
          THEN [fight EXCEPT !.call = "bribe", !.returned = "False", !.rolled = FALSE,
                             !.enemy_attacks = 0]
          ELSE [fight EXCEPT !.call = "bribe", !.returned = "True", !.rolled = FALSE,
                             !.enemy_attacks = 0,
                             !.talents = Max(0, @ - BribeCost(@)),
                             !.defeated = FALSE, !.enemy_hp = EnemyMaxHp,
                             !.finished = TRUE, !.result = "bribe"]
    /\ UNCHANGED <<baseVars, species, search, inv>>

NextBattle ==
    \/ \E player_damage \in 1..MaxDamage, enemy_damage \in 1..MaxDamage :
          CallAttackRound(player_damage, enemy_damage)
    \/ \E roll \in 1..RollMax, enemy_damage \in 1..MaxDamage : CallRunAway(roll, enemy_damage)
    \/ CallBribe

SpecBattle == InitBattle /\ [][NextBattle]_vars

\* What a call leaves of the battle, the record of the call itself aside.
BattleState(f) ==
    <<f.finished, f.result, f.locked, f.enemy_hp, f.defeated, f.player_hp, f.talents,
      f.rewards>>

\* C27: finished is true exactly when result is set; attack_round on a
\* finished battle changes nothing; the reward is added to the talents once
\* per battle, by the round that ends it with victory; the side whose
\* opponent ended the battle earlier in the round does not act; neither hp
\* goes below 0.
C27_BattleAbsorbing ==
    /\ [](fight.made =>
             /\ fight.finished <=> fight.result # "None"
             /\ fight.player_hp >= 0
             /\ fight.enemy_hp >= 0
             /\ fight.rewards <= 1)
    /\ [][fight'.call = "attack_round" =>
             /\ fight.finished => BattleState(fight') = BattleState(fight)
             /\ fight'.talents # fight.talents =>
                   /\ fight'.result = "victory"
                   /\ fight'.talents = fight.talents + RewardTalents
                   /\ fight'.rewards = 1
             /\ (~fight.finished /\ fight'.result = "victory") =>
                   /\ fight'.talents = fight.talents + RewardTalents
                   /\ fight.player_first => fight'.player_hp = fight.player_hp
             /\ (~fight.finished /\ fight'.result = "defeat" /\ ~fight.player_first) =>
                   fight'.enemy_hp = fight.enemy_hp]_vars

\* A wounded player who acts first has won: the enemy did not strike in the
\* call, and the reward was added once.
C27_Witness ==
    /\ fight.made
    /\ fight.call = "attack_round"
    /\ fight.result = "victory"
    /\ fight.player_first
    /\ fight.rewards = 1
    /\ fight.talents = StartTalents + RewardTalents
    /\ fight.player_hp < HeroMaxHp
    /\ fight.enemy_attacks = 0

\* C28: once a run_away call has rolled and failed, a later run_away call
\* returns False without a roll and does not end the battle with result run;
\* a failed roll is followed by exactly one enemy attack; a locked or
\* disallowed attempt brings no enemy attack and changes no hp.
C28_OneFleeAttempt ==
    [][fight'.call = "run_away" =>
          /\ fight.locked =>
                /\ fight'.returned = "False"
                /\ ~fight'.rolled
                /\ BattleState(fight') = BattleState(fight)
          /\ (fight'.rolled /\ fight'.returned = "False") =>
                /\ fight'.locked
                /\ fight'.enemy_attacks = 1
                /\ (fight.enemy_hp > 0 /\ fight.player_hp > 0) =>
                      fight'.player_hp < fight.player_hp
          /\ (~fight'.rolled /\ fight'.returned = "False") =>
                /\ fight'.enemy_attacks = 0
                /\ fight'.player_hp = fight.player_hp
                /\ fight'.enemy_hp = fight.enemy_hp
          /\ fight'.rolled <=> (~fight.locked /\ fight.has_dexterity /\ CanRun(fight))]_vars

\* A second attempt after a failed roll: refused without a roll, the battle
\* still running, the player wounded by the one enemy attack.
C28_Witness ==
    /\ fight.made
    /\ fight.locked
    /\ fight.call = "run_away"
    /\ fight.returned = "False"
    /\ ~fight.rolled
    /\ ~fight.finished
    /\ fight.player_hp < HeroMaxHp

-----------------------------------------------------------------------------
(* main.py: the game loop with every key it reads. The frame drawn at the   *)
(* top of each pass reads the state and writes none of it, so the passes    *)
(* are told apart by their key alone.                                       *)

\* Inventory.passive_rows
PASSIVE_ROWS == 3

\* main.py lines 49-66: the world is built, the player stands on its spawn
\* tile and holds the seeded inventory.
InitKeys ==
    /\ dims = ViewDims
    /\ \E layout \in 0..MaxLayout : screens = SampleScreens(layout)
    /\ spawn_screen = <<WORLD_COLUMNS \div 2, WORLD_ROWS \div 2>>
    /\ spawn_position = FindSpawn(screens[spawn_screen].terrain)
    /\ player = [screen_x |-> spawn_screen[1], screen_y |-> spawn_screen[2],
                 x |-> spawn_position[1], y |-> spawn_position[2]]
    /\ footprints = <<>>
    /\ current_battle = NoBattle
    /\ inventory_open = FALSE
    /\ moves = 0
    /\ view = NoView
    /\ visits = <<>>
    /\ limit = None
    /\ gen = NoGen
    /\ wcall = NoCall
    /\ pc = "idle"
    /\ build = NoBuild
    /\ catalog = NoCatalog
    /\ \E first \in BOOLEAN :
          hero = [hp |-> HeroMaxHp, talents |-> StartTalents, first |-> first,
                  outcomes |-> <<>>]
    /\ canvas = NoCanvas
    /\ time_elapsed = 0
    /\ species = NoSpecies
    /\ search = NoSearch
    /\ fight = NoFight
    /\ inv = [made |-> TRUE, inventory |-> SeededInventory(PASSIVE_ROWS),
              call |-> "__init__", returned |-> "None"]

\* What the inventory keys and the ignored keys leave alone.
keysFrame == <<dims, worldVars, player, footprints, current_battle, visits, limit, gen,
               wcall, pc, build, catalog, hero, canvas, time_elapsed, species, search,
               fight>>

\* main.py lines 148-151 and 164-167: key i while no battle is running opens
\* the inventory or closes it.
ToggleInventory ==
    /\ ~current_battle.active
    /\ moves < MaxMoves
    /\ inventory_open' = ~inventory_open
    /\ moves' = moves + 1
    /\ view' = NoView
    /\ UNCHANGED <<keysFrame, inv>>

\* main.py lines 148-162: a key w, s, a, d or e while the inventory is open.
InventoryKey(key) ==
    /\ ~current_battle.active
    /\ inventory_open
    /\ moves < MaxMoves
    /\ inv' =
          CASE key = "w" -> [inv EXCEPT !.inventory = MoveCursor(@, 0, -1),
                                        !.call = "move_cursor", !.returned = "None"]
            [] key = "s" -> [inv EXCEPT !.inventory = MoveCursor(@, 0, 1),
                                        !.call = "move_cursor", !.returned = "None"]
            [] key = "a" -> [inv EXCEPT !.inventory = MoveCursor(@, -1, 0),
                                        !.call = "move_cursor", !.returned = "None"]
            [] key = "d" -> [inv EXCEPT !.inventory = MoveCursor(@, 1, 0),
                                        !.call = "move_cursor", !.returned = "None"]
            [] key = "e" -> [inv EXCEPT
                                !.inventory = TransferSelected(@).inventory,
                                !.call = "transfer_selected",
                                !.returned = IF TransferSelected(inv.inventory).success
                                             THEN "True" ELSE "False"]
    /\ moves' = moves + 1
    /\ view' = NoView
    /\ UNCHANGED <<keysFrame, inventory_open>>

\* main.py lines 103-114 and 147: a movement or inventory key while a battle
\* is running matches none of the battle keys and the event is dropped.
IgnoredBattleKey(key) ==
    /\ current_battle.active
    /\ ~current_battle.exited
    /\ moves < MaxMoves
    /\ key \in {"w", "s", "a", "d", "i", "e"}
    /\ moves' = moves + 1
    /\ view' = NoView
    /\ UNCHANGED <<keysFrame, inventory_open, inv>>

NextKeys ==
    \/ \E d \in {<<0, -1>>, <<0, 1>>, <<-1, 0>>, <<1, 0>>} : Move(d[1], d[2])
    \/ BattleAttack
    \/ BattleRunAway
    \/ BattleBribe
    \/ ToggleInventory
    \/ \E key \in {"w", "s", "a", "d", "e"} : InventoryKey(key)
    \/ \E key \in {"w", "s", "a", "d", "i", "e"} : IgnoredBattleKey(key)

SpecKeys == InitKeys /\ [][NextKeys]_vars

\* The tile of the world at the flattened coordinate g is walkable.
WorldTileWalkable(g) ==
    /\ 0 <= g[1] /\ g[1] < TotalWidth
    /\ 0 <= g[2] /\ g[2] < TotalHeight
    /\ TileWalkable(screens[<<g[1] \div MAP_WIDTH, g[2] \div MAP_HEIGHT>>]
                       .terrain[g[2] % MAP_HEIGHT][g[1] % MAP_WIDTH])

\* C25: after any sequence of keys the player's screen is a screen of the
\* grid, the in-screen coordinate is inside the screen and the tile under the
\* player is walkable; a movement key whose target tile, one step in the
\* pressed direction in flattened world coordinates, is in the world and
\* walkable moves the player exactly there, and any other movement key leaves
\* the position and the footprints as they were.
C25_MovementSafety ==
    /\ [](/\ <<player.screen_x, player.screen_y>> \in ScreenCoords
          /\ <<player.x, player.y>> \in Cells
          /\ WorldTileWalkable(WorldXY(player)))
    /\ [][\A d \in {<<0, -1>>, <<0, 1>>, <<-1, 0>>, <<1, 0>>} :
             Move(d[1], d[2]) =>
                IF WorldTileWalkable(<<WorldXY(player)[1] + d[1], WorldXY(player)[2] + d[2]>>)
                THEN WorldXY(player') = <<WorldXY(player)[1] + d[1], WorldXY(player)[2] + d[2]>>
                ELSE player' = player /\ footprints' = footprints]_vars

\* The player has crossed into another screen and a later step was blocked.
C25_Witness ==
    /\ <<player.screen_x, player.screen_y>> # spawn_screen
    /\ moves >= 2
    /\ \E d \in {<<0, -1>>, <<0, 1>>, <<-1, 0>>, <<1, 0>>} :
          ~WorldTileWalkable(<<WorldXY(player)[1] + d[1], WorldXY(player)[2] + d[2]>>)
    /\ ~current_battle.active

\* C26: the inventory is never open while a battle is running; a battle
\* starts only by a step onto the tile of an enemy of the destination
\* screen that is not defeated; while a battle is running no key changes the
\* inventory, and the position changes only when the battle ends.
C26_ModeExclusion ==
    /\ [](~(current_battle.active /\ inventory_open))
    /\ [][(~current_battle.active /\ current_battle'.active) =>
             /\ Position(player') # Position(player)
             /\ current_battle'.enemy_screen = <<player'.screen_x, player'.screen_y>>
             /\ \E list \in {screens[current_battle'.enemy_screen].enemies} :
                   /\ current_battle'.enemy \in 1..Len(list)
                   /\ ~list[current_battle'.enemy].defeated
                   /\ list[current_battle'.enemy].x = player'.x
                   /\ list[current_battle'.enemy].y = player'.y]_vars
    /\ [][current_battle.active =>
             /\ inv' = inv
             /\ inventory_open' = inventory_open
             /\ Position(player') # Position(player) => ~current_battle'.active]_vars

\* The player stands on the tile of a defeated enemy and no battle runs; the
\* inventory has been opened and closed on the way.
C26_Witness ==
    /\ ~current_battle.active
    /\ ~inventory_open
    /\ moves >= 3
    /\ inv.inventory.cursor_index # 0
    /\ \E i \in 1..Len(screens[<<player.screen_x, player.screen_y>>].enemies) :
          LET enemy == screens[<<player.screen_x, player.screen_y>>].enemies[i]
          IN  enemy.defeated /\ enemy.x = player.x /\ enemy.y = player.y

====
